---- MODULE Spec2Model ----
\* Field Controller (slave1: PLCController + DeviceManager) and the Supervisor
\* command path (master2.: _execute_command + write_cmd_packet), as state machines.
\*
\* Integers: the Python code builds 32-bit values with (1 << 32); the operators
\* below compute the same register words with \div and % on the signed value,
\* so that no intermediate exceeds 2^31 - 1.
EXTENDS Integers, Sequences, FiniteSets, TLC

\* ---------------------------------------------------------------------------
\* Program constants (slave1/config.py)
\* ---------------------------------------------------------------------------
SLAVE_ID_SHT20 == 1
SLAVE_ID_DRIVER == 2
SLAVE_ID_COUNTER == 3
AUTO_MOVE_PULSES == 5000
AUTO_MOVE_SPEED == 8000
HR_TARGET_ADDR == 0
HR_MODE_ADDR == 8
HR_CMD_ADDR == 10
HR_CMD_REG_COUNT == 6
MOTOR_TIMEOUT_S == 10

AUTO_STATE_MAP ==
  [s \in {"Idle", "Waiting count", "Motor running", "Waiting reset", "Alarm",
          "Timeout motor", "Disabled", "Waiting target", "Manual"} |->
     CASE s = "Idle" -> 0
       [] s = "Waiting count" -> 1
       [] s = "Motor running" -> 2
       [] s = "Waiting reset" -> 3
       [] s = "Alarm" -> 4
       [] s = "Timeout motor" -> 5
       [] s = "Disabled" -> 6
       [] s = "Waiting target" -> 7
       [] s = "Manual" -> 8]

\* ---------------------------------------------------------------------------
\* Bounds of the model
\* ---------------------------------------------------------------------------
\* seconds the clock advances per Tock, and the value at which it saturates
ClockStep == 6
MaxElapsed == 12

\* values a remote master writes to HR[0] and HR[8]
TargetVals == {0, 3}
ModeVals == {0, 1}

\* MANUAL packets a remote master writes to HR[10..15]
\* <<cmd, pos_hi, pos_lo, speed, source_code, priority>>
Packets ==
  { <<1, 0, 0, 0, 2, 2>>,
    <<2, 0, 0, 0, 2, 2>>,
    <<3, 0, 20000, 8000, 2, 2>>,
    <<3, 65535, 65535, 1000, 3, 3>>,
    <<4, 0, 0, 0, 2, 2>>,
    <<5, 0, 0, 8000, 2, 2>>,
    <<6, 0, 0, 8000, 3, 3>>,
    <<7, 0, 0, 0, 2, 1>>,
    <<8, 0, 0, 0, 2, 2>>,
    <<9, 0, 0, 0, 3, 3>>,
    <<0, 0, 0, 0, 0, 0>> }

\* driver status words the driver answers with (bit8 alarm, bit4 inpos, bit2 running)
StatusWords == {0, 256, 16}

\* <<reg0, reg1, reg2>> the counter answers with (value, target, done flag word)
CounterReads == { <<0, 3, 0>>, <<3, 3, 1>>, <<0, 0, 0>> }

\* length of the response to a write: 0 = none before the timeout,
\* 5 = short frame (an exception response), 8 = full echo
RespLens == {0, 5, 8}

\* ---------------------------------------------------------------------------
\* State
\* ---------------------------------------------------------------------------
VARIABLES
  serverUp,        \* PLCController.modbus_server is set and its data bank initialised
  HR,              \* data_bank holding registers 0, 8, 10..15
  IR,              \* data_bank input registers 0..11
  connected,       \* DeviceManager.is_connected()
  dm,              \* DeviceManager fields read by the engine
  motor_state,     \* PLCController.motor_state
  last_tcp_target, \* PLCController.last_tcp_target
  elapsed,         \* time.time() - PLCController.last_motor_cmd_time, in seconds, saturating
  last,            \* the handler that ran last
  calls,           \* frames handed to send_frame by the last handler, in order
  wire,            \* frames the last handler wrote to the serial port, in order
  resps,           \* what send_frame returned for each of calls: the length of the
                   \* response (writes) or the number of valid register words (reads)
  logs,            \* log lines of the last handler
  hist,            \* history of the packet in HR[10..15] (observation only)
  sf,              \* the threads inside send_frame: their position, ser_lock, the bus
  ui,              \* LayerBMainWindow: the Supervisor's copy of the status, the SHT20
                   \* toggle, and what its last handler read, requested, sent and logged
  cs,              \* JsonTcpServer: the client slot, the sockets, and its threads
  tk,              \* process_manual_command between its read of HR[10..15] and
                   \* its write of HR[10]: the packet it read
  fx               \* an argument of the conversion functions and their results

vars == <<serverUp, HR, IR, connected, dm, motor_state, last_tcp_target,
          elapsed, last, calls, wire, resps, logs, hist, sf, ui, cs, tk, fx>>

HRAddrs == {0, 8, 10, 11, 12, 13, 14, 15}
IRAddrs == 0 .. 11

\* ---------------------------------------------------------------------------
\* modbus_utils.py
\* ---------------------------------------------------------------------------
pack_u32(val) == << (val \div 65536) % 65536, val % 65536 >>

pack_s32(val) == << (val \div 65536) % 65536, val % 65536 >>

build_fc03(slave_id, start_reg, count) ==
  [slave |-> slave_id, fc |-> 3, addr |-> start_reg % 65536, regs |-> << count % 65536 >>]

build_fc04(slave_id, start_reg, count) ==
  [slave |-> slave_id, fc |-> 4, addr |-> start_reg % 65536, regs |-> << count % 65536 >>]

build_fc06(slave_id, reg_addr, reg_val) ==
  [slave |-> slave_id, fc |-> 6, addr |-> reg_addr % 65536, regs |-> << reg_val % 65536 >>]

build_fc16(slave_id, start_reg, registers) ==
  [slave |-> slave_id, fc |-> 16, addr |-> start_reg % 65536,
   regs |-> [i \in 1 .. Len(registers) |-> registers[i] % 65536]]

\* crc16_modbus over a sequence of bytes; ^ is computed bit by bit
crc16_modbus(data) ==
  LET xor[a \in Nat, b \in Nat] ==
        IF a = 0 THEN b
        ELSE IF b = 0 THEN a
        ELSE 2 * xor[a \div 2, b \div 2] + ((a + b) % 2)
      shift[crc \in Nat, n \in Nat] ==
        IF n = 0 THEN crc
        ELSE shift[IF crc % 2 = 1 THEN xor[crc \div 2, 40961] ELSE crc \div 2, n - 1]
      fold[crc \in Nat, i \in Nat] ==
        IF i > Len(data) THEN crc ELSE fold[shift[xor[crc, data[i]], 8], i + 1]
  IN fold[65535, 1] % 65536

verify_crc(resp) ==
  IF Len(resp) < 5 THEN FALSE
  ELSE resp[Len(resp) - 1] + 256 * resp[Len(resp)]
         = crc16_modbus(SubSeq(resp, 1, Len(resp) - 2))

\* variant: the CRC is appended high byte first
frame_bytes_be(f) ==
  LET data == <<f.slave, f.fc, (f.addr \div 256) % 256, f.addr % 256,
                (f.regs[1] \div 256) % 256, f.regs[1] % 256>>
      crc == crc16_modbus(data)
  IN data \o << (crc \div 256) % 256, crc % 256 >>

\* the bytes build_fc03 / build_fc04 / build_fc06 / build_fc16 return for the
\* frame f: header, register bytes high byte first, CRC low byte first
frame_bytes(f) ==
  LET n == Len(f.regs)
      regbytes == [i \in 1 .. 2 * n |->
                     IF i % 2 = 1 THEN (f.regs[(i + 1) \div 2] \div 256) % 256
                                  ELSE f.regs[i \div 2] % 256]
      head == <<f.slave, f.fc, (f.addr \div 256) % 256, f.addr % 256>>
      data == IF f.fc = 16
                THEN head \o <<(n \div 256) % 256, n % 256, 2 * n>> \o regbytes
                ELSE head \o regbytes
      crc == crc16_modbus(data)
  IN data \o << crc % 256, (crc \div 256) % 256 >>

\* offset counts from 0, as in the code
unpack_s32_from_bytes(b, offset) ==
  LET b0 == b[offset + 1]
      low == b[offset + 2] * 65536 + b[offset + 3] * 256 + b[offset + 4]
  IN IF b0 >= 128 THEN (b0 - 256) * 16777216 + low ELSE b0 * 16777216 + low

\* ---------------------------------------------------------------------------
\* DeviceManager (slave1/device_manager.py)
\*
\* A handler works on a record s of the fields it may change:
\*   dm, motor_state, last_tcp_target, elapsed, HR, calls, wire, resps, logs, ok
\* (ok is the return value of the device operation called last).
\* ---------------------------------------------------------------------------
DmInit ==
  [current_position |-> 0, current_speed |-> 0,
   driver_alarm |-> FALSE, driver_inpos |-> FALSE, driver_running |-> FALSE,
   temperature |-> 0, humidity |-> 0, sht20_ok |-> FALSE,
   counter_value |-> 0, counter_target |-> 0, counter_done |-> FALSE]

\* send_frame: the frame is written only when the port is open; the response
\* is empty when the port is closed, else what the bus delivers (resp).
send_frame(s, frame, resp) ==
  [s EXCEPT !.calls = Append(@, frame),
            !.wire = IF connected THEN Append(@, frame) ELSE @,
            !.resps = Append(@, IF connected THEN resp ELSE 0)]

\* the bytes send_frame returns, as a length (writes) ...
RespLen(r) == IF connected THEN r ELSE 0

\* ... or as the register words of a well-formed answer (reads); <<>> when the
\* answer is missing, short, of the wrong function code or fails verify_crc
RespRegs(regs) == IF connected THEN regs ELSE << >>

\* temperature and humidity are kept in tenths (the register value)
read_driver_position(s, regs) ==
  LET t == send_frame(s, build_fc03(SLAVE_ID_DRIVER, 4096, 2), Len(regs))
      a == RespRegs(regs)
  IN IF Len(a) = 2
       THEN [t EXCEPT !.dm.current_position =
               IF a[1] >= 32768 THEN (a[1] - 65536) * 65536 + a[2]
                                ELSE a[1] * 65536 + a[2]]
       ELSE t

read_driver_status(s, regs) ==
  LET t == send_frame(s, build_fc03(SLAVE_ID_DRIVER, 4112, 1), Len(regs))
      a == RespRegs(regs)
  IN IF Len(a) = 1
       THEN [t EXCEPT !.dm.driver_alarm = ((a[1] \div 256) % 2 = 1),
                      !.dm.driver_inpos = ((a[1] \div 16) % 2 = 1),
                      !.dm.driver_running = ((a[1] \div 4) % 2 = 1)]
       ELSE t

\* variant: a failed read leaves sht20_ok as it was
read_sht20_stale(s, regs) ==
  LET t == send_frame(s, build_fc04(SLAVE_ID_SHT20, 1, 2), Len(regs))
      a == RespRegs(regs)
  IN IF Len(a) = 2
       THEN [t EXCEPT !.dm.temperature = a[1], !.dm.humidity = a[2],
                      !.dm.sht20_ok = TRUE]
       ELSE t

read_sht20(s, regs) ==
  LET t == send_frame(s, build_fc04(SLAVE_ID_SHT20, 1, 2), Len(regs))
      a == RespRegs(regs)
  IN IF Len(a) = 2
       THEN [t EXCEPT !.dm.temperature = a[1], !.dm.humidity = a[2],
                      !.dm.sht20_ok = TRUE]
       ELSE [t EXCEPT !.dm.sht20_ok = FALSE]

read_counter(s, regs) ==
  LET t == send_frame(s, build_fc03(SLAVE_ID_COUNTER, 0, 4), Len(regs))
      a == RespRegs(regs)
  IN IF Len(a) = 3
       THEN [t EXCEPT !.dm.counter_value = a[1], !.dm.counter_target = a[2],
                      !.dm.counter_done = (a[3] % 2 = 1)]
       ELSE t

read_all_devices(s, pos, sw, sht, cnt) ==
  read_counter(read_sht20(read_driver_status(read_driver_position(s, pos), sw), sht), cnt)

set_counter_target(s, target, r) ==
  [send_frame(s, build_fc06(SLAVE_ID_COUNTER, 1, target), r) EXCEPT !.ok = (RespLen(r) >= 8)]

reset_counter(s, r) ==
  [send_frame(s, build_fc06(SLAVE_ID_COUNTER, 3, 1), r) EXCEPT !.ok = (RespLen(r) >= 8)]

motor_step_on(s, r) ==
  [send_frame(s, build_fc06(SLAVE_ID_DRIVER, 0, 1), r) EXCEPT !.ok = (RespLen(r) > 0)]

motor_step_off(s, r) ==
  [send_frame(s, build_fc06(SLAVE_ID_DRIVER, 0, 0), r) EXCEPT !.ok = (RespLen(r) > 0)]

\* speed is clamped to 0 .. 0xFFFFFFFF; the upper clamp is beyond every value modelled
motor_move_absolute(s, position, speed, r) ==
  LET spd == IF speed < 0 THEN 0 ELSE speed
  IN [send_frame(s, build_fc16(SLAVE_ID_DRIVER, 32, pack_s32(position) \o pack_u32(spd)), r)
        EXCEPT !.ok = (RespLen(r) > 0)]

motor_jog_cw(s, speed, r) ==
  LET spd == IF speed < 0 THEN 0 ELSE speed
  IN [send_frame(s, build_fc16(SLAVE_ID_DRIVER, 48, pack_u32(spd) \o <<0, 1>>), r)
        EXCEPT !.ok = (RespLen(r) > 0)]

motor_jog_ccw(s, speed, r) ==
  LET spd == IF speed < 0 THEN 0 ELSE speed
  IN [send_frame(s, build_fc16(SLAVE_ID_DRIVER, 48, pack_u32(spd) \o <<0, 0>>), r)
        EXCEPT !.ok = (RespLen(r) > 0)]

motor_stop(s, r) ==
  [send_frame(s, build_fc06(SLAVE_ID_DRIVER, 2, 1), r) EXCEPT !.ok = (RespLen(r) > 0)]

motor_reset_alarm(s, r) ==
  [send_frame(s, build_fc06(SLAVE_ID_DRIVER, 1, 1), r) EXCEPT !.ok = (RespLen(r) > 0)]

\* ---------------------------------------------------------------------------
\* PLCController (slave1/plc_controller.py)
\* ---------------------------------------------------------------------------
\* auto_enabled is set in __init__ and assigned nowhere else
auto_enabled == TRUE

get_mode(s) == IF serverUp THEN s.HR[HR_MODE_ADDR] ELSE 0

\* variant: the target register is zeroed once it has been handed on
check_target_from_tcp_consume(s, r) ==
  IF ~serverUp THEN s
  ELSE LET target == s.HR[HR_TARGET_ADDR]
       IN IF target # s.last_tcp_target
            THEN LET t == set_counter_target(
                            [s EXCEPT !.last_tcp_target = target,
                                      !.HR[HR_TARGET_ADDR] = 0,
                                      !.logs = Append(@, <<"TARGET", target>>)],
                            target, r)
                 IN IF t.ok
                      THEN [t EXCEPT !.dm.counter_target = target]
                      ELSE t
            ELSE s

\* variant: the target is not looked at while the engine is in "Manual"
check_target_from_tcp_idle(s, r) ==
  IF ~serverUp \/ s.motor_state = "Manual" THEN s
  ELSE LET target == s.HR[HR_TARGET_ADDR]
       IN IF target # s.last_tcp_target
            THEN LET t == set_counter_target([s EXCEPT !.last_tcp_target = target],
                                             target, r)
                 IN IF t.ok THEN [t EXCEPT !.dm.counter_target = target] ELSE t
            ELSE s

\* variant: the shadow is updated only when the counter acknowledges
check_target_from_tcp_retry(s, r) ==
  IF ~serverUp THEN s
  ELSE LET target == s.HR[HR_TARGET_ADDR]
       IN IF target # s.last_tcp_target
            THEN LET t == set_counter_target(s, target, r)
                 IN IF t.ok
                      THEN [t EXCEPT !.dm.counter_target = target,
                                     !.last_tcp_target = target]
                      ELSE t
            ELSE s

check_target_from_tcp(s, r) ==
  IF ~serverUp THEN s
  ELSE LET target == s.HR[HR_TARGET_ADDR]
       IN IF target # s.last_tcp_target
            THEN LET t == set_counter_target(
                            [s EXCEPT !.last_tcp_target = target,
                                      !.logs = Append(@, <<"TARGET", target>>)],
                            target, r)
                 IN IF t.ok
                      THEN [t EXCEPT !.dm.counter_target = target,
                                     !.logs = Append(@, <<"Arduino target", target>>)]
                      ELSE [t EXCEPT !.logs = Append(@, <<"Arduino no confirm">>)]
            ELSE s

\* signed 32-bit position of the packet words
PacketPos(pos_hi, pos_lo) ==
  IF pos_hi % 65536 >= 32768
    THEN ((pos_hi % 65536) - 65536) * 65536 + (pos_lo % 65536)
    ELSE (pos_hi % 65536) * 65536 + (pos_lo % 65536)

\* variant: the two jog directions are exchanged
ManualOp_swapJog(s, cmd, pos_val, speed, r) ==
  CASE cmd = 1 -> motor_step_on(s, r)
    [] cmd = 2 -> motor_step_off(s, r)
    [] cmd = 3 -> motor_move_absolute(s, pos_val, speed, r)
    [] cmd = 5 -> motor_jog_ccw(s, speed, r)
    [] cmd = 6 -> motor_jog_cw(s, speed, r)
    [] cmd = 7 -> motor_stop(s, r)
    [] cmd = 8 -> motor_reset_alarm(s, r)
    [] cmd = 9 -> motor_stop(s, r)
    [] OTHER -> s

\* the device operation process_manual_command calls for a command code
ManualOp(s, cmd, pos_val, speed, r) ==
  CASE cmd = 1 -> motor_step_on(s, r)
    [] cmd = 2 -> motor_step_off(s, r)
    [] cmd = 3 -> motor_move_absolute(s, pos_val, speed, r)
    [] cmd = 5 -> motor_jog_cw(s, speed, r)
    [] cmd = 6 -> motor_jog_ccw(s, speed, r)
    [] cmd = 7 -> motor_stop(s, r)
    [] cmd = 8 -> motor_reset_alarm(s, r)
    [] cmd = 9 -> motor_stop(s, r)
    [] OTHER -> s

\* variant: the command slot is left as it is
ClearCmd_keep(hr) == hr

\* the register written after the operation ("Clear CMD")
ClearCmd(hr) == [hr EXCEPT ![HR_CMD_ADDR] = 0]

process_manual_command(s, r) ==
  IF ~serverUp THEN s
  ELSE LET cmd == s.HR[10]
           pos_hi == s.HR[11]
           pos_lo == s.HR[12]
           speed == s.HR[13]
           source_code == s.HR[14]
           priority == s.HR[15]
       IN IF cmd = 0 THEN s
          ELSE LET pos_val == PacketPos(pos_hi, pos_lo)
                   src_text == IF source_code = 2 THEN "B"
                               ELSE IF source_code = 3 THEN "C" ELSE "Unknown"
                   t == [s EXCEPT !.logs = Append(@,
                           <<"MANUAL CMD", cmd, src_text, priority, pos_val, speed>>)]
                   u == ManualOp(t, cmd, pos_val, speed, r)
               IN [u EXCEPT !.HR = ClearCmd(@)]

\* line 187: the mode value that selects the MANUAL branch
IsManual(mode) == mode = 1

\* variant: the alarm flag is not looked at
AlarmStops_never(s) == FALSE

\* line 197: the AUTO branch stops here while the driver reports an alarm
AlarmStops(s) == s.dm.driver_alarm

\* lines 208-209: counter done and the motor not (known to be) running
MoveTrigger(s) ==
  s.dm.counter_done /\ s.motor_state \notin {"Motor running", "Alarm"}

\* variant: the state advances whether or not the driver answered
StartMove_noAck(s, r) ==
  LET t == motor_move_absolute(s, AUTO_MOVE_PULSES, AUTO_MOVE_SPEED, r)
  IN [t EXCEPT !.dm.current_speed = AUTO_MOVE_SPEED,
               !.motor_state = "Motor running",
               !.elapsed = 0,
               !.logs = Append(@, <<"AUTO: count reached target">>)]

\* lines 211-221
StartMove(s, r) ==
  LET t == motor_move_absolute(s, AUTO_MOVE_PULSES, AUTO_MOVE_SPEED, r)
  IN IF t.ok
       THEN [t EXCEPT !.dm.current_speed = AUTO_MOVE_SPEED,
                      !.motor_state = "Motor running",
                      !.elapsed = 0,
                      !.logs = Append(@, <<"AUTO: count reached target">>)]
       ELSE t

\* lines 224-233
WhileRunning(s, r) ==
  IF s.dm.driver_inpos
    THEN LET t == reset_counter(s, r)
         IN IF t.ok
              THEN [t EXCEPT !.motor_state = "Waiting reset",
                             !.elapsed = 0,
                             !.logs = Append(@, <<"AUTO: motor in-position, reset counter">>)]
              ELSE t
    ELSE IF s.elapsed > MOTOR_TIMEOUT_S
           THEN [s EXCEPT !.motor_state = "Timeout motor",
                          !.logs = Append(@, <<"AUTO: timeout waiting for motor InPos">>)]
           ELSE s

\* lines 236-241
WhileWaitingReset(s) ==
  IF s.dm.counter_value = 0 /\ ~s.dm.counter_done
    THEN [s EXCEPT !.motor_state = "Idle",
                   !.logs = Append(@, <<"AUTO: new cycle started">>)]
    ELSE s

\* lines 244-249
OtherStates(s) ==
  IF s.motor_state \notin {"Idle", "Waiting count", "Waiting target", "Timeout motor"}
    THEN [s EXCEPT !.motor_state = "Waiting count"]
    ELSE IF ~s.dm.counter_done
           THEN [s EXCEPT !.motor_state = "Waiting count"]
           ELSE s

auto_cycle(s0, r1, r2) ==
  LET s == check_target_from_tcp(s0, r1)
      mode == get_mode(s)
  IN IF IsManual(mode)
       THEN process_manual_command([s EXCEPT !.motor_state = "Manual"], r2)
     ELSE IF ~auto_enabled
       THEN [s EXCEPT !.motor_state = "Disabled"]
     ELSE IF AlarmStops(s)
       THEN [s EXCEPT !.motor_state = "Alarm",
                      !.logs = IF s.motor_state # "Alarm"
                                 THEN Append(@, <<"AUTO stopped: driver alarm">>) ELSE @]
     ELSE IF s.dm.counter_target <= 0
       THEN [s EXCEPT !.motor_state = "Waiting target"]
     ELSE IF MoveTrigger(s)
       THEN StartMove(s, r2)
     ELSE IF s.motor_state = "Motor running"
       THEN WhileRunning(s, r2)
     ELSE IF s.motor_state = "Waiting reset"
       THEN WhileWaitingReset(s)
     ELSE OtherStates(s)

\* temperature and humidity are held in tenths, so int(t * 10) is the held value
Clamp(lo, x, hi) == IF x < lo THEN lo ELSE IF x > hi THEN hi ELSE x

update_input_registers(s, ir) ==
  IF ~serverUp THEN ir
  ELSE LET pos == s.dm.current_position
           pos_hi == (pos \div 65536) % 65536
           pos_lo == pos % 65536
           speed == Clamp(0, s.dm.current_speed, 65535)
           temp == Clamp(-32768, s.dm.temperature, 32767) % 65536
           humi == Clamp(0, s.dm.humidity, 65535)
           status_word == (IF s.dm.driver_alarm THEN 1 ELSE 0)
                        + (IF s.dm.driver_inpos THEN 2 ELSE 0)
                        + (IF s.dm.driver_running THEN 4 ELSE 0)
           auto_code == AUTO_STATE_MAP[s.motor_state]
           mode_val == get_mode(s)
           regs == << pos_hi, pos_lo, speed, temp, humi, status_word,
                      s.dm.counter_value, s.dm.counter_target, auto_code, mode_val >>
       IN [a \in IRAddrs |-> IF a < Len(regs) THEN regs[a + 1] ELSE ir[a]]

\* ---------------------------------------------------------------------------
\* Supervisor command path (master2./ui.py, master2./modbus_service.py)
\*
\* A JSON command is a record [type, source, priority, data]; a key that is
\* absent from the JSON object holds NA (integers) or "NA" (strings).
\* The result of a command is the Modbus TCP write request it makes, if any.
\* ---------------------------------------------------------------------------
NA == 0 - 999999999
A_HR_TARGET_ADDR == 0
A_HR_MODE_ADDR == 8
A_HR_CMD_ADDR == 10
A_HR_CMD_REG_COUNT == 6
TARGET_MIN == 1
TARGET_MAX == 65535

NoData ==
  [target |-> NA, mode |-> NA, position |-> NA, speed |-> NA,
   step_command |-> "NA", alarm_reset |-> FALSE, direction |-> NA]

NoWrite == [kind |-> "none", addr |-> 0, regs |-> << >>]

\* variant: the two halves are exchanged
s32_to_regs_swap(val) == << val % 65536, (val \div 65536) % 65536 >>

s32_to_regs(val) == << (val \div 65536) % 65536, val % 65536 >>

\* '"Layer_C" in origin_source or "Machine_C" in origin_source', on the source
\* strings of the model
NamesC(origin_source) == origin_source \in {"Layer_C", "Machine_C"}

write_target(target) ==
  IF target < 0 \/ target > 65535 THEN NoWrite
  ELSE [kind |-> "single", addr |-> A_HR_TARGET_ADDR, regs |-> << target >>]

write_mode(mode) ==
  IF mode \notin {0, 1} THEN NoWrite
  ELSE [kind |-> "single", addr |-> A_HR_MODE_ADDR, regs |-> << mode >>]

\* pos and speed are NA when the caller gives none; priority is always given
\* by _execute_command
write_cmd_packet(cmd, pos, speed, origin_source, priority) ==
  LET source_code == IF NamesC(origin_source) THEN 3 ELSE 2
      prio == priority
      pr == IF pos = NA THEN <<0, 0>> ELSE s32_to_regs(pos)
      spd == IF speed = NA THEN 0 ELSE speed
  IN [kind |-> "multi", addr |-> A_HR_CMD_ADDR,
      regs |-> << cmd % 65536, pr[1] % 65536, pr[2] % 65536, spd % 65536,
                  source_code % 65536, prio % 65536 >>]

\* cur_position, cur_speed: the Supervisor's copy of the last status
execute_command(command, from_c, cur_position, cur_speed) ==
  LET cmd_type == command.type
      source == IF command.source = "NA"
                  THEN (IF from_c THEN "Layer_C" ELSE "Layer_B") ELSE command.source
      priority == IF command.priority = NA
                    THEN (IF from_c THEN 3 ELSE 2) ELSE command.priority
      data == command.data
  IN CASE cmd_type = "set_target" ->
            LET target == IF data.target = NA THEN 0 ELSE data.target
            IN IF target < TARGET_MIN \/ target > TARGET_MAX
                 THEN NoWrite ELSE write_target(target)
       [] cmd_type = "set_mode" ->
            LET mode == IF data.mode = NA THEN 0 ELSE data.mode
            IN IF mode \notin {0, 1} THEN NoWrite ELSE write_mode(mode)
       [] cmd_type = "motor_control" ->
            IF data.step_command = "on"
              THEN write_cmd_packet(1, NA, NA, source, priority)
            ELSE IF data.step_command = "off"
              THEN write_cmd_packet(2, NA, NA, source, priority)
            ELSE IF data.alarm_reset
              THEN write_cmd_packet(8, NA, NA, source, priority)
            ELSE LET pos == IF data.position = NA THEN cur_position ELSE data.position
                     speed == IF data.speed = NA
                                THEN (IF cur_speed > 0 THEN cur_speed ELSE 1000)
                                ELSE data.speed
                 IN write_cmd_packet(3, pos, speed, source, priority)
       [] cmd_type = "jog_control" ->
            LET speed == IF data.speed = NA THEN 0 ELSE data.speed
                direction == IF data.direction = NA THEN 1 ELSE data.direction
            IN write_cmd_packet(IF direction > 0 THEN 5 ELSE 6, NA, speed, source, priority)
       [] cmd_type = "stop_motor" -> write_cmd_packet(7, NA, NA, source, priority)
       [] cmd_type = "release_control" -> write_cmd_packet(7, NA, NA, "Local", 1)
       [] cmd_type = "emergency_stop" -> write_cmd_packet(9, NA, NA, source, priority)
       [] OTHER -> NoWrite

\* variant: one more type is let through
AllowedTypes_more ==
  {"motor_control", "jog_control", "stop_motor", "release_control",
   "emergency_stop", "set_target", "set_mode", "reset"}

AllowedTypes ==
  {"motor_control", "jog_control", "stop_motor", "release_control",
   "emergency_stop", "set_target", "set_mode"}

on_command_from_c(command, cur_position, cur_speed) ==
  IF command.type = "heartbeat" THEN NoWrite
  ELSE IF command.type \notin AllowedTypes THEN NoWrite
  ELSE execute_command(command, TRUE, cur_position, cur_speed)

\* JSON commands the operator client sends
JsonMsgs ==
  { [type |-> "emergency_stop", source |-> "NA", priority |-> NA, data |-> NoData],
    [type |-> "heartbeat", source |-> "NA", priority |-> NA, data |-> NoData] }

\* ---------------------------------------------------------------------------
\* Supervisor status path (master2./modbus_service.py, master2./ui.py)
\*
\* temperature and humidity, floats of one decimal in the code, are held in
\* tenths: float(temp10) / 10.0 is the number temp10 tenths.
\* ---------------------------------------------------------------------------
A_IR_COUNT == 12

\* variant: the sign bit is not looked at
regs_to_s32_unsigned(hi, lo) == (hi % 32768) * 65536 + (lo % 65536)

regs_to_s32(hi, lo) ==
  IF (hi % 65536) >= 32768 THEN ((hi % 65536) - 65536) * 65536 + (lo % 65536)
                           ELSE (hi % 65536) * 65536 + (lo % 65536)

Bit(word, n) == (word \div (2 ^ n)) % 2 = 1

NoStatus == [none |-> TRUE]

\* variant: the in_position and running bits are exchanged
poll_status_bits(regs) ==
  IF Len(regs) < A_IR_COUNT THEN NoStatus
  ELSE [position |-> regs_to_s32(regs[1], regs[2]),
        speed |-> regs[3],
        temperature |-> regs[4],
        humidity |-> regs[5],
        driver_alarm |-> Bit(regs[6], 0),
        driver_inpos |-> Bit(regs[6], 2),
        driver_running |-> Bit(regs[6], 1),
        counter_value |-> regs[7],
        counter_target |-> regs[8],
        auto_state_code |-> regs[9],
        mode |-> regs[10],
        step_enabled |-> regs[11] # 0,
        jog_state |-> regs[12]]

\* regs: the answer to the read of A_IR_COUNT input registers, << >> when there
\* is none
poll_status(regs) ==
  IF Len(regs) < A_IR_COUNT THEN NoStatus
  ELSE [position |-> regs_to_s32(regs[1], regs[2]),
        speed |-> regs[3],
        temperature |-> regs[4],
        humidity |-> regs[5],
        driver_alarm |-> Bit(regs[6], 0),
        driver_inpos |-> Bit(regs[6], 1),
        driver_running |-> Bit(regs[6], 2),
        counter_value |-> regs[7],
        counter_target |-> regs[8],
        auto_state_code |-> regs[9],
        mode |-> regs[10],
        step_enabled |-> regs[11] # 0,
        jog_state |-> regs[12]]

NoCommand == [type |-> "NA", source |-> "NA", priority |-> NA, data |-> NoData]

\* the threads that call ModbusService: _poll_loop and the UI thread
MsThreads == {"poll", "ui"}

\* ModbusService.__init__ and the chip of LayerBMainWindow._build_ui
LinkInit ==
  [connected |-> FALSE,            \* ModbusService._connected
   is_open |-> FALSE,              \* ModbusClient.is_open
   chip_a |-> "A: Connecting...",  \* the text _on_conn_a shows
   failed |-> "none",              \* the request of the last handler that failed:
                                   \* "open", "read", "write" or "none"
   sent |-> NoStatus,              \* "data" the last handler gave to server_c.send
   lock |-> "none",                \* the thread inside 'with self._lock', if any
   pc |-> [t \in MsThreads |-> "idle"],   \* where each thread is in its request
   req |-> NoWrite]                \* the write request of the UI thread

\* _set_connected with the _on_conn_a its signal reaches
set_connected(l, c) ==
  IF c = l.connected THEN l
  ELSE [l EXCEPT !.connected = c,
                 !.chip_a = IF c THEN "A: Connected" ELSE "A: Disconnected"]

UiInit ==
  [current_position |-> 0, current_speed |-> 0, temperature |-> 0, humidity |-> 0,
   driver_alarm |-> FALSE, driver_inpos |-> FALSE, driver_running |-> FALSE,
   counter_value |-> 0, counter_target |-> 0, auto_state_code |-> 0,
   current_mode |-> 0, step_enabled |-> FALSE, jog_state |-> 0,
   sht20_enabled |-> TRUE,
   regs |-> << >>,          \* the registers of the last status read
   status_msg |-> NoStatus, \* "data" of the last status object given to server_c.send
   command |-> NoCommand,   \* the last command received from the JSON client
   executed |-> FALSE,      \* whether it was passed to _execute_command
   req |-> NoWrite,         \* the write request it made
   logs |-> << >>,          \* log lines of the last handler
   link |-> LinkInit]       \* ModbusService: the link to the Field Controller

\* _on_status: st is a status of poll_status
on_status(u, st) ==
  LET v == [u EXCEPT
              !.temperature = IF u.sht20_enabled THEN st.temperature ELSE @,
              !.humidity = IF u.sht20_enabled THEN st.humidity ELSE @,
              !.current_position = st.position,
              !.current_speed = st.speed,
              !.driver_alarm = st.driver_alarm,
              !.driver_inpos = st.driver_inpos,
              !.driver_running = st.driver_running,
              !.counter_value = st.counter_value,
              !.counter_target = st.counter_target,
              !.auto_state_code = st.auto_state_code,
              !.current_mode = st.mode,
              !.step_enabled = st.step_enabled,
              !.jog_state = st.jog_state]
  IN [v EXCEPT !.status_msg =
        [position |-> v.current_position, speed |-> v.current_speed,
         temperature |-> v.temperature, humidity |-> v.humidity,
         driver_alarm |-> v.driver_alarm, driver_inpos |-> v.driver_inpos,
         driver_running |-> v.driver_running,
         counter_value |-> v.counter_value, counter_target |-> v.counter_target,
         auto_state_code |-> v.auto_state_code, mode |-> v.current_mode,
         step_enabled |-> v.step_enabled, jog_state |-> v.jog_state],
        !.logs = << >>]

toggle_sht20(u) ==
  [u EXCEPT !.sht20_enabled = ~@,
            !.logs = << IF u.sht20_enabled THEN "SHT20 sensor reading DISABLED"
                                           ELSE "SHT20 sensor reading ENABLED" >>]

\* log lines of _execute_command and of the ModbusService call it makes;
\* open: the Modbus TCP connection to the Field Controller can be opened
execute_logs(command, req, open) ==
  IF req.kind = "none"
    THEN IF command.type = "set_target"
           THEN << <<"Invalid target">> >>
           ELSE << >>
  ELSE IF ~open
    THEN << <<"Cannot open Modbus">> >>
  ELSE << <<"written", req.addr>>, <<"forwarded", command.type>> >>

\* _on_command_from_c with the _execute_command it calls
command_from_c(u, command, open) ==
  IF command.type = "heartbeat"
    THEN [u EXCEPT !.command = command, !.executed = FALSE, !.req = NoWrite,
                   !.logs = << >>]
  ELSE IF command.type \notin AllowedTypes
    THEN [u EXCEPT !.command = command, !.executed = FALSE, !.req = NoWrite,
                   !.logs = << <<"Received from C", command.type>>,
                               <<"Rejected: unsupported command", command.type>> >>]
  ELSE LET req == execute_command(command, TRUE, u.current_position, u.current_speed)
       IN [u EXCEPT !.command = command, !.executed = TRUE,
                    !.req = IF open THEN req ELSE NoWrite,
                    !.logs = << <<"Received from C", command.type>> >>
                               \o execute_logs(command, req, open)]

\* ---------------------------------------------------------------------------
\* JsonTcpServer (master2./c_server.py)
\*
\* Clients are numbered in the order of accept(); 0 stands for None. A thread
\* inside _close_client holds in 'cap' the socket it took from the slot.
\* ---------------------------------------------------------------------------
MaxClients == 2
MaxLines == 2

Clients == 1 .. MaxClients

\* the lines a client sends: not JSON, JSON but not an object, an object of an
\* unknown type, a stop_motor command
LineKinds == {"garbage", "nonobject", "reset", "stop_motor"}

\* what one step of the server gives out: a log line, the line it handled, the
\* client a status object went to, the command delivered to the UI thread
NoOut ==
  [log |-> "none", line |-> "none", sentTo |-> 0,
   delivered |-> [type |-> "none", afterBad |-> FALSE]]

CsInit ==
  [slot |-> 0,                 \* _client_sock
   open |-> {},                \* client sockets not yet closed by the server
   peer |-> {},                \* clients whose end of the connection is still up
   newest |-> 0,               \* the client accept() returned last
   acc |-> [pc |-> "accept", cap |-> 0],
   h |-> [c \in Clients |-> [pc |-> "none", cap |-> 0]],
   snd |-> [pc |-> "idle", sock |-> 0, cap |-> 0],
   nlines |-> 0,               \* the lines handled so far, over all clients
   bad |-> {},                 \* clients that sent a line not holding an object
   queue |-> << >>,            \* command_received signals not yet delivered
   out |-> NoOut]

\* _close_client, lines 72-74: under the lock, take the socket out of the slot
close_take(c0) == [c0 EXCEPT !.slot = 0]

\* _close_client, lines 75-80: close the socket taken
close_sock(c0, cap) == [c0 EXCEPT !.open = @ \ {cap}]

\* ---------------------------------------------------------------------------
\* Actions of the Field Controller and of its remote writers
\* ---------------------------------------------------------------------------
\* callers of send_frame, taken as threads of their own
Threads == {"poller", "tick", "manual"}
NoThread == "none"

SfInit == [pc |-> [t \in Threads |-> "idle"], lock |-> NoThread, bus |-> << >>]

Cur ==
  [dm |-> dm, motor_state |-> motor_state, last_tcp_target |-> last_tcp_target,
   elapsed |-> elapsed, HR |-> HR, calls |-> << >>, wire |-> << >>, resps |-> << >>,
   logs |-> << >>,
   ok |-> FALSE]

Min(a, b) == IF a < b THEN a ELSE b

\* no tick is inside process_manual_command
TkInit == [pc |-> "idle", pkt |-> << >>]

\* no conversion is under way
FxNone == [kind |-> "none", done |-> TRUE]

\* the state after construction, but for the argument of the conversions
Start ==
  /\ serverUp = FALSE
  /\ HR = [a \in HRAddrs |-> 0]
  /\ IR = [a \in IRAddrs |-> 0]
  /\ connected = FALSE
  /\ dm = DmInit
  /\ motor_state = "Idle"
  /\ last_tcp_target = 0
  /\ elapsed = 0
  /\ last = "init"
  /\ calls = << >>
  /\ wire = << >>
  /\ resps = << >>
  /\ logs = << >>
  /\ hist = [wmode |-> "none", ticks |-> 0, estop |-> FALSE]
  /\ sf = SfInit
  /\ ui = UiInit
  /\ cs = CsInit
  /\ tk = TkInit

Init == Start /\ fx = FxNone

\* start_modbus_server: the server thread creates the server and zeroes the data bank
StartServer ==
  /\ ~serverUp
  /\ serverUp' = TRUE
  /\ HR' = [a \in HRAddrs |-> 0]
  /\ IR' = [a \in IRAddrs |-> 0]
  /\ last' = "other"
  /\ calls' = << >> /\ wire' = << >> /\ resps' = << >> /\ logs' = << >>
  /\ UNCHANGED <<fx, tk, cs, ui, sf, connected, dm, motor_state, last_tcp_target, elapsed, hist>>

\* connect_serial / disconnect_serial (the operator's buttons)
Connect ==
  /\ ~connected
  /\ connected' = TRUE
  /\ last' = "other"
  /\ calls' = << >> /\ wire' = << >> /\ resps' = << >> /\ logs' = << >>
  /\ UNCHANGED <<fx, tk, cs, ui, sf, serverUp, HR, IR, dm, motor_state, last_tcp_target, elapsed, hist>>

Disconnect ==
  /\ connected
  /\ connected' = FALSE
  /\ last' = "other"
  /\ calls' = << >> /\ wire' = << >> /\ resps' = << >> /\ logs' = << >>
  /\ UNCHANGED <<fx, tk, cs, ui, sf, serverUp, HR, IR, dm, motor_state, last_tcp_target, elapsed, hist>>

\* the wall clock; it is read only in "Motor running", which is entered with elapsed = 0
Tock ==
  /\ motor_state = "Motor running"
  /\ elapsed < MaxElapsed
  /\ elapsed' = Min(elapsed + ClockStep, MaxElapsed)
  /\ last' = "other"
  /\ calls' = << >> /\ wire' = << >> /\ resps' = << >> /\ logs' = << >>
  /\ UNCHANGED <<fx, tk, cs, ui, sf, serverUp, HR, IR, connected, dm, motor_state, last_tcp_target, hist>>

\* LayerA_PLC.read_all_devices (timer_read): poll, then mirror into IR
\* POS, SW, SHT, CNT: the answers the devices may give (<< >>: no valid answer);
\* a closed port gives none
Answers(A) == IF connected THEN A ELSE {<< >>}

Poll(POS, SW, SHT, CNT) ==
  \E pos \in Answers(POS), sw \in Answers(SW), sht \in Answers(SHT), cnt \in Answers(CNT) :
    LET s == read_all_devices(Cur, pos, sw, sht, cnt)
    IN /\ dm' = s.dm
       /\ calls' = s.calls
       /\ wire' = s.wire
       /\ resps' = s.resps
       /\ logs' = s.logs
       /\ IR' = update_input_registers(s, IR)
       /\ last' = "poll"
       /\ UNCHANGED <<fx, tk, cs, ui, sf, serverUp, HR, connected, motor_state, last_tcp_target, elapsed, hist>>

\* what a tick does to the packet history
HistAfterTick(s) ==
  [wmode |-> IF s.HR[10] = 0 THEN "none" ELSE hist.wmode,
   ticks |-> IF s.HR[10] = 0 THEN 0 ELSE Min(hist.ticks + 1, 2),
   estop |-> hist.estop \/ (serverUp /\ IsManual(get_mode(Cur)) /\ HR[10] = 9)]

\* LayerA_PLC.auto_cycle (timer_auto): engine tick, then mirror into IR
\* r1 answers the counter_set_target frame of check_target_from_tcp, r2 the
\* frame sent after it; only a frame that is sent on an open port has a response
TargetChanged == serverUp /\ HR[HR_TARGET_ADDR] # last_tcp_target

Tick ==
  \E r1 \in (IF connected /\ TargetChanged THEN RespLens ELSE {0}),
     r2 \in (IF connected THEN RespLens ELSE {0}) :
    LET s == auto_cycle(Cur, r1, r2)
    IN /\ (r2 = 0 \/ Len(s.calls) > (IF TargetChanged THEN 1 ELSE 0))
       /\ dm' = s.dm
       /\ motor_state' = s.motor_state
       /\ last_tcp_target' = s.last_tcp_target
       /\ elapsed' = s.elapsed
       /\ HR' = s.HR
       /\ calls' = s.calls
       /\ wire' = s.wire
       /\ resps' = s.resps
       /\ logs' = s.logs
       /\ IR' = update_input_registers(s, IR)
       /\ hist' = HistAfterTick(s)
       /\ last' = "tick"
       /\ UNCHANGED <<fx, tk, cs, ui, sf, serverUp, connected>>

\* the data bank after a Modbus TCP write request (FC06 / FC16) of a remote master
ApplyWrite(req) ==
  IF req.kind = "single"
    THEN [HR EXCEPT ![req.addr] = req.regs[1]]
    ELSE [a \in HRAddrs |->
            IF a >= req.addr /\ a < req.addr + Len(req.regs)
              THEN req.regs[a - req.addr + 1] ELSE HR[a]]

HistAfterWrite(req) ==
  IF req.addr = HR_CMD_ADDR
    THEN [hist EXCEPT !.wmode = IF req.regs[1] = 0 THEN "none"
                                ELSE IF HR[HR_MODE_ADDR] = 1 THEN "manual" ELSE "auto",
                      !.ticks = 0]
  ELSE IF req.addr = HR_MODE_ADDR /\ req.regs[1] # HR[HR_MODE_ADDR]
    THEN [hist EXCEPT !.estop = FALSE]
  ELSE hist

RemoteWrite(req, who) ==
  /\ serverUp
  /\ HR' = ApplyWrite(req)
  /\ hist' = HistAfterWrite(req)
  /\ last' = who
  /\ calls' = << >> /\ wire' = << >> /\ resps' = << >> /\ logs' = << >>
  /\ UNCHANGED <<fx, tk, cs, ui, sf, serverUp, IR, connected, dm, motor_state, last_tcp_target, elapsed>>

MasterWriteTarget ==
  \E v \in TargetVals :
    RemoteWrite([kind |-> "single", addr |-> HR_TARGET_ADDR, regs |-> <<v>>], "write")

MasterWriteMode ==
  \E m \in ModeVals :
    RemoteWrite([kind |-> "single", addr |-> HR_MODE_ADDR, regs |-> <<m>>], "write")

MasterWritePacket(PK) ==
  \E p \in PK :
    RemoteWrite([kind |-> "multi", addr |-> HR_CMD_ADDR, regs |-> p], "write")

\* a JSON command of the operator client, relayed by the Supervisor; the
\* Supervisor's copy of position and speed is the one it polled from IR
JsonCommand(MSGS) ==
  \E msg \in MSGS :
    LET req == on_command_from_c(msg, 0, IR[2])
    IN /\ req.kind # "none"
       /\ RemoteWrite(req, "json")

\* ModbusService._poll_loop and LayerBMainWindow._on_status: a status read that
\* is answered with READS, parsed and forwarded as a status object
SupStatus(READS) ==
  \E regs \in READS :
    LET st == poll_status(regs)
    IN /\ st # NoStatus
       /\ ui' = [on_status(ui, st) EXCEPT !.regs = regs]
       /\ last' = "status"
       /\ calls' = << >> /\ wire' = << >> /\ resps' = << >> /\ logs' = << >>
       /\ UNCHANGED <<fx, tk, cs, sf, serverUp, HR, IR, connected, dm, motor_state,
                      last_tcp_target, elapsed, hist>>

\* the operator presses the SHT20 button of the Supervisor
SupToggle ==
  /\ ui' = toggle_sht20(ui)
  /\ last' = "other"
  /\ calls' = << >> /\ wire' = << >> /\ resps' = << >> /\ logs' = << >>
  /\ UNCHANGED <<fx, tk, cs, sf, serverUp, HR, IR, connected, dm, motor_state,
                 last_tcp_target, elapsed, hist>>

\* LayerBMainWindow._on_command_from_c for a command of the JSON client; the
\* Modbus TCP connection opens when the Field Controller's server runs, and the
\* request the command makes is applied to the data bank
SupCommand(MSGS) ==
  \E msg \in MSGS :
    LET u == command_from_c(ui, msg, serverUp)
    IN /\ ui' = u
       /\ HR' = IF u.req.kind = "none" THEN HR ELSE ApplyWrite(u.req)
       /\ hist' = IF u.req.kind = "none" THEN hist ELSE HistAfterWrite(u.req)
       /\ last' = "json"
       /\ calls' = << >> /\ wire' = << >> /\ resps' = << >> /\ logs' = << >>
       /\ UNCHANGED <<fx, tk, cs, sf, serverUp, IR, connected, dm, motor_state,
                      last_tcp_target, elapsed>>

\* ---------------------------------------------------------------------------
\* Spec: the AUTO cycle. Remote masters write HR[0] and HR[8]; the driver
\* status read and the counter read are answered (or not) with every status
\* and count of the model; the position read and the sensor get no valid answer.
\* ---------------------------------------------------------------------------
PollAuto ==
  Poll({<< >>}, {<< >>} \cup {<<w>> : w \in StatusWords}, {<< >>},
       {<< >>} \cup CounterReads)

Next ==
  \/ StartServer
  \/ Connect
  \/ Disconnect
  \/ Tock
  \/ PollAuto
  \/ Tick
  \/ MasterWriteTarget
  \/ MasterWriteMode

Spec == Init /\ [][Next]_vars

\* ---------------------------------------------------------------------------
\* SpecManual: the MANUAL command path. Remote masters and the operator's JSON
\* client also write packets to HR[10..15]; the devices answer a poll with an
\* idle driver and a counter without target.
\* ---------------------------------------------------------------------------
PollIdle ==
  Poll({<<0, 20000>>}, {<<0>>}, {<<250, 500>>}, {<<0, 0, 0>>})

WritePackets == MasterWritePacket(Packets)

JsonCommands == JsonCommand(JsonMsgs)

NextManual ==
  \/ StartServer
  \/ Connect
  \/ Disconnect
  \/ PollIdle
  \/ Tick
  \/ MasterWriteTarget
  \/ MasterWriteMode
  \/ WritePackets
  \/ JsonCommands

SpecManual == Init /\ [][NextManual]_vars

\* ---------------------------------------------------------------------------
\* SpecMirror: the input-register mirror. The devices answer a poll with
\* positive and negative positions, every status word of the model, sensor
\* words below and above 0x8000 and every count; a master switches the mode.
\* ---------------------------------------------------------------------------
PositionReads == { <<0, 20000>>, <<65535, 65535>> }
SensorReads == { <<250, 500>>, <<65486, 1000>> }

PollValues ==
  Poll(PositionReads, {<<w>> : w \in StatusWords}, SensorReads,
       {<<0, 3, 0>>, <<3, 3, 1>>})

NextMirror ==
  \/ StartServer
  \/ Connect
  \/ PollValues
  \/ Tick
  \/ MasterWriteMode

SpecMirror == Init /\ [][NextMirror]_vars

\* ---------------------------------------------------------------------------
\* SpecFaults: polls in which each device answers or gives no valid answer
\* (none, short, wrong function code, bad CRC); the port opens and closes.
\* ---------------------------------------------------------------------------
PollFaults ==
  Poll({<< >>, <<0, 20000>>}, {<< >>, <<16>>},
       {<< >>, <<250, 500>>, <<260, 510>>}, {<< >>, <<3, 3, 1>>})

NextFaults ==
  \/ StartServer
  \/ Connect
  \/ Disconnect
  \/ PollFaults

SpecFaults == Init /\ [][NextFaults]_vars

\* ---------------------------------------------------------------------------
\* SpecSupervisor: the Supervisor between the JSON client and the Field
\* Controller. Status reads are answered with the register images of
\* StatusReads; the JSON client sends the commands of JsonCommandSet.
\* ---------------------------------------------------------------------------
StatusReads ==
  { <<0, 20000, 8000, 250, 500, 6, 3, 10, 2, 0, 1, 0>>,
    <<65535, 65535, 0, 65486, 1000, 3, 0, 0, 4, 1, 0, 2>> }

Cmd(type, data) == [type |-> type, source |-> "NA", priority |-> NA, data |-> data]

JsonCommandSet ==
  { Cmd("set_target", [NoData EXCEPT !.target = 3]),
    Cmd("set_target", [NoData EXCEPT !.target = 0]),
    Cmd("set_target", [NoData EXCEPT !.target = 70000]),
    Cmd("set_target", NoData),
    Cmd("set_mode", [NoData EXCEPT !.mode = 1]),
    Cmd("set_mode", [NoData EXCEPT !.mode = 2]),
    Cmd("motor_control", [NoData EXCEPT !.step_command = "on"]),
    Cmd("motor_control", [NoData EXCEPT !.step_command = "off"]),
    Cmd("motor_control", [NoData EXCEPT !.alarm_reset = TRUE]),
    Cmd("motor_control", [NoData EXCEPT !.position = 20000, !.speed = 8000]),
    Cmd("motor_control", [NoData EXCEPT !.position = 0 - 1, !.speed = 70000]),
    Cmd("motor_control", [NoData EXCEPT !.position = 2000000001, !.speed = 8000]),
    Cmd("motor_control", [NoData EXCEPT !.position = 20000, !.speed = 0]),
    Cmd("motor_control", NoData),
    Cmd("jog_control", [NoData EXCEPT !.speed = 1000, !.direction = 1]),
    Cmd("jog_control", [NoData EXCEPT !.speed = 1000, !.direction = 0 - 1]),
    Cmd("jog_control", [NoData EXCEPT !.speed = 1000, !.direction = 0]),
    Cmd("jog_control", [NoData EXCEPT !.speed = 0, !.direction = 1]),
    Cmd("stop_motor", NoData),
    [Cmd("stop_motor", NoData) EXCEPT !.priority = 5],
    [Cmd("stop_motor", NoData) EXCEPT !.source = "Layer_B", !.priority = 2],
    Cmd("release_control", NoData),
    Cmd("emergency_stop", NoData),
    Cmd("heartbeat", NoData),
    Cmd("reset", NoData) }

StatusUpdates == SupStatus(StatusReads)

Commands == SupCommand(JsonCommandSet)

NextSupervisor ==
  \/ StartServer
  \/ StatusUpdates
  \/ SupToggle
  \/ Commands

SpecSupervisor == Init /\ [][NextSupervisor]_vars

\* ---------------------------------------------------------------------------
\* SpecJsonServer: the JSON line server of the Supervisor, statement by
\* statement. The accept thread, one handler thread for each client and the UI
\* thread (status sends and delivered commands) interleave; clients connect,
\* send lines and hang up.
\* ---------------------------------------------------------------------------
FieldIdle ==
  UNCHANGED <<serverUp, HR, IR, connected, dm, motor_state, last_tcp_target,
              elapsed, calls, wire, resps, logs, hist, sf, tk, fx>>

\* a step of a thread of the server: only the server's state changes
ServerStep(c1, out) ==
  cs' = [c1 EXCEPT !.out = out] /\ last' = "other" /\ ui' = ui /\ FieldIdle

Log(text) == [NoOut EXCEPT !.log = text]

\* _run, line 92: accept() returns the next client
JsAccept ==
  /\ cs.acc.pc = "accept"
  /\ cs.newest < MaxClients
  /\ LET k == cs.newest + 1
     IN ServerStep([cs EXCEPT !.newest = k, !.open = @ \cup {k},
                              !.peer = @ \cup {k}, !.acc.pc = "take"], NoOut)

\* _run, line 97: _close_client, its locked part
JsAcceptTake ==
  /\ cs.acc.pc = "take"
  /\ ServerStep([close_take(cs) EXCEPT !.acc = [pc |-> "close", cap |-> cs.slot]],
                NoOut)

\* _run, line 97: _close_client, closing what it took
JsAcceptClose ==
  /\ cs.acc.pc = "close"
  /\ ServerStep([close_sock(cs, cs.acc.cap) EXCEPT !.acc = [pc |-> "set", cap |-> 0]],
                NoOut)

\* _run, lines 98-104: the new client goes into the slot, its handler starts
JsAcceptSet ==
  /\ cs.acc.pc = "set"
  /\ ServerStep([cs EXCEPT !.slot = cs.newest, !.acc.pc = "accept",
                           !.h[cs.newest].pc = "recv"],
                Log("Layer C connected"))

\* variant: a line that is not JSON ends the handler's loop
handle_line_raise(c0, c, line) ==
  LET c1 == [c0 EXCEPT !.nlines = @ + 1]
  IN CASE line = "garbage" -> [c1 EXCEPT !.bad = @ \cup {c}, !.h[c].pc = "check"]
       [] line = "nonobject" -> [c1 EXCEPT !.bad = @ \cup {c}]
       [] OTHER -> [c1 EXCEPT !.queue = Append(@, [type |-> line, afterBad |-> c \in c0.bad])]

\* _handle_client, lines 118-130: one line of the client
handle_line(c0, c, line) ==
  LET c1 == [c0 EXCEPT !.nlines = @ + 1]
  IN CASE line = "garbage" -> [c1 EXCEPT !.bad = @ \cup {c}]
       [] line = "nonobject" -> [c1 EXCEPT !.bad = @ \cup {c}]
       [] OTHER -> [c1 EXCEPT !.queue = Append(@, [type |-> line, afterBad |-> c \in c0.bad])]

\* the log line of lines 128 and 130
line_log(line) ==
  CASE line = "garbage" -> "JSON error from C"
    [] line = "nonobject" -> "Rejected: command is not a JSON object"
    [] OTHER -> "none"

\* _handle_client, lines 114-130: recv returns a line
JsLine(c) ==
  /\ cs.h[c].pc = "recv"
  /\ c \in cs.open /\ c \in cs.peer
  /\ cs.nlines < MaxLines
  /\ \E line \in LineKinds :
       ServerStep(handle_line(cs, c, line),
                  [NoOut EXCEPT !.log = line_log(line), !.line = line])

\* _handle_client, lines 114-116 and 131-132: recv returns nothing after the
\* client hung up, or raises on a socket the server closed
JsRecvEnd(c) ==
  /\ cs.h[c].pc = "recv"
  /\ c \notin cs.open \/ c \notin cs.peer
  /\ ServerStep([cs EXCEPT !.h[c].pc = "check"],
                IF c \notin cs.open THEN Log("Error from C") ELSE NoOut)

\* _handle_client, lines 135-137: still_active
JsCheck(c) ==
  /\ cs.h[c].pc = "check"
  /\ ServerStep([cs EXCEPT !.h[c].pc = IF cs.slot = c THEN "take" ELSE "own"], NoOut)

\* _handle_client, line 138: _close_client, its locked part
JsHandlerTake(c) ==
  /\ cs.h[c].pc = "take"
  /\ ServerStep([close_take(cs) EXCEPT !.h[c] = [pc |-> "close", cap |-> cs.slot]],
                NoOut)

\* _handle_client, line 138: _close_client, closing what it took
JsHandlerClose(c) ==
  /\ cs.h[c].pc = "close"
  /\ ServerStep([close_sock(cs, cs.h[c].cap) EXCEPT !.h[c] = [pc |-> "own", cap |-> 0]],
                NoOut)

\* _handle_client, lines 139-143: the handler closes its own socket
JsOwn(c) ==
  /\ cs.h[c].pc = "own"
  /\ ServerStep([close_sock(cs, c) EXCEPT !.h[c].pc = "done"],
                Log("Layer C disconnected"))

\* LayerBMainWindow._on_status up to the first statements of send (lines 59-62):
\* the socket is read from the slot
JsSendStart ==
  /\ cs.snd.pc = "idle"
  /\ cs' = [cs EXCEPT !.out = NoOut,
                      !.snd = IF cs.slot = 0 THEN @
                              ELSE [pc |-> "send", sock |-> cs.slot, cap |-> 0]]
  /\ ui' = on_status(ui, poll_status(<<0, 20000, 8000, 250, 500, 6, 3, 10, 2, 0, 1, 0>>))
  /\ last' = "status"
  /\ FieldIdle

\* send, lines 63-65: sendall delivers the status object
JsSendOk ==
  /\ cs.snd.pc = "send"
  /\ cs.snd.sock \in cs.open
  /\ ServerStep([cs EXCEPT !.snd = [pc |-> "idle", sock |-> 0, cap |-> 0]],
                [NoOut EXCEPT !.sentTo = cs.snd.sock])

\* send, lines 66-67: sendall raises
JsSendError ==
  /\ cs.snd.pc = "send"
  /\ cs.snd.sock \notin cs.open \/ cs.snd.sock \notin cs.peer
  /\ ServerStep([cs EXCEPT !.snd.pc = "take"], Log("Send to C error"))

\* send, line 68: _close_client, its locked part
JsSendTake ==
  /\ cs.snd.pc = "take"
  /\ ServerStep([close_take(cs) EXCEPT !.snd = [pc |-> "close", sock |-> 0,
                                                cap |-> cs.slot]], NoOut)

\* send, line 68: _close_client, closing what it took
JsSendClose ==
  /\ cs.snd.pc = "close"
  /\ ServerStep([close_sock(cs, cs.snd.cap) EXCEPT
                   !.snd = [pc |-> "idle", sock |-> 0, cap |-> 0]], NoOut)

\* the client hangs up
JsPeerClose(c) ==
  /\ c \in cs.peer
  /\ ServerStep([cs EXCEPT !.peer = @ \ {c}], NoOut)

\* command_received reaches LayerBMainWindow._on_command_from_c on the UI thread
JsDeliver ==
  /\ cs.queue # << >>
  /\ cs.snd.pc = "idle"
  /\ LET u == command_from_c(ui, Cmd(Head(cs.queue).type, NoData), serverUp)
     IN /\ ui' = u
        /\ HR' = IF u.req.kind = "none" THEN HR ELSE ApplyWrite(u.req)
        /\ hist' = IF u.req.kind = "none" THEN hist ELSE HistAfterWrite(u.req)
        /\ cs' = [cs EXCEPT !.queue = Tail(@),
                            !.out = [NoOut EXCEPT !.delivered = Head(cs.queue)]]
        /\ last' = "json"
        /\ calls' = << >> /\ wire' = << >> /\ resps' = << >> /\ logs' = << >>
        /\ UNCHANGED <<fx, tk, sf, serverUp, IR, connected, dm, motor_state,
                       last_tcp_target, elapsed>>

AcceptThread == JsAccept \/ JsAcceptTake \/ JsAcceptClose \/ JsAcceptSet

HandlerThread ==
  \E c \in Clients :
    \/ JsLine(c)
    \/ JsRecvEnd(c)
    \/ JsCheck(c)
    \/ JsHandlerTake(c)
    \/ JsHandlerClose(c)
    \/ JsOwn(c)

StatusSend == JsSendStart \/ JsSendOk \/ JsSendError \/ JsSendTake \/ JsSendClose

ClientHangsUp == \E c \in Clients : JsPeerClose(c)

NextJsonServer ==
  \/ StartServer
  \/ AcceptThread
  \/ HandlerThread
  \/ StatusSend
  \/ ClientHangsUp
  \/ JsDeliver

SpecJsonServer == Init /\ [][NextJsonServer]_vars

\* ---------------------------------------------------------------------------
\* SpecJsonLines: the same server while no status object is sent and the Field
\* Controller's server is up before the first client connects: clients connect,
\* send lines and hang up, and the UI thread takes the commands.
\* ---------------------------------------------------------------------------
ServerThreads ==
  /\ serverUp
  /\ \/ AcceptThread
     \/ HandlerThread
     \/ ClientHangsUp
     \/ JsDeliver

NextJsonLines ==
  \/ StartServer
  \/ ServerThreads

SpecJsonLines == Init /\ [][NextJsonLines]_vars

\* ---------------------------------------------------------------------------
\* SpecLink: the Modbus TCP link of the Supervisor. The Field Controller is
\* reachable when its server runs and the network (net) lets the request
\* through; a request that fails leaves the client's socket closed. JSON
\* clients attach; no client sends a line or hangs up.
\* ---------------------------------------------------------------------------
\* one iteration of ModbusService._poll_loop: poll_status, and for a status
\* LayerBMainWindow._on_status with the send of the status object
SupPoll(READS) ==
  \E regs \in READS, net \in BOOLEAN :
    LET reach == serverUp /\ net
        l0 == ui.link
        opened == l0.is_open \/ reach
        u == on_status(ui, poll_status(regs))
    IN /\ cs.snd.pc = "idle"
       /\ ui' = IF ~opened
                  THEN [ui EXCEPT !.logs = << >>,
                          !.link = [set_connected(l0, FALSE) EXCEPT
                                      !.failed = "open", !.sent = NoStatus]]
                ELSE IF ~reach
                  THEN [ui EXCEPT !.logs = << >>,
                          !.link = [set_connected(l0, FALSE) EXCEPT
                                      !.is_open = FALSE, !.failed = "read",
                                      !.sent = NoStatus]]
                ELSE [u EXCEPT !.regs = regs,
                        !.link = [set_connected(l0, TRUE) EXCEPT
                                    !.is_open = TRUE, !.failed = "none",
                                    !.sent = u.status_msg]]
       /\ cs' = [cs EXCEPT !.out = IF reach /\ cs.slot \in cs.open
                                     THEN [NoOut EXCEPT !.sentTo = cs.slot]
                                     ELSE NoOut]
       /\ last' = IF reach THEN "status" ELSE "other"
       /\ calls' = << >> /\ wire' = << >> /\ resps' = << >> /\ logs' = << >>
       /\ UNCHANGED <<fx, tk, sf, serverUp, HR, IR, connected, dm, motor_state,
                      last_tcp_target, elapsed, hist>>

\* _on_command_from_c when the write of the command goes over the link
SupWrite(MSGS) ==
  \E msg \in MSGS, net \in BOOLEAN :
    LET reach == serverUp /\ net
        l0 == ui.link
        opened == l0.is_open \/ reach
        tried == /\ msg.type \in AllowedTypes
                 /\ execute_command(msg, TRUE, ui.current_position,
                                    ui.current_speed).kind # "none"
        u == command_from_c(ui, msg, reach)
        l1 == IF ~tried THEN [l0 EXCEPT !.failed = "none", !.sent = NoStatus]
              ELSE IF ~opened
                THEN [set_connected(l0, FALSE) EXCEPT !.failed = "open",
                                                      !.sent = NoStatus]
              ELSE [l0 EXCEPT !.is_open = reach, !.sent = NoStatus,
                              !.failed = IF reach THEN "none" ELSE "write"]
    IN /\ ui' = [u EXCEPT !.link = l1,
                          !.logs = IF tried /\ opened /\ ~reach
                                     THEN << <<"Received from C", msg.type>>,
                                             <<"Write failed">> >>
                                     ELSE @]
       /\ HR' = IF u.req.kind = "none" THEN HR ELSE ApplyWrite(u.req)
       /\ hist' = IF u.req.kind = "none" THEN hist ELSE HistAfterWrite(u.req)
       /\ cs' = [cs EXCEPT !.out = NoOut]
       /\ last' = "json"
       /\ calls' = << >> /\ wire' = << >> /\ resps' = << >> /\ logs' = << >>
       /\ UNCHANGED <<fx, tk, sf, serverUp, IR, connected, dm, motor_state,
                      last_tcp_target, elapsed>>

NextLink ==
  \/ StartServer
  \/ AcceptThread
  \/ SupPoll(StatusReads)
  \/ SupWrite({Cmd("stop_motor", NoData),
               Cmd("set_target", [NoData EXCEPT !.target = 3]),
               Cmd("set_target", [NoData EXCEPT !.target = 0])})

SpecLink == Init /\ [][NextLink]_vars

\* ---------------------------------------------------------------------------
\* SpecLock: poll_status and write_target / write_mode / write_cmd_packet,
\* statement by statement, on the poll thread and on the UI thread. A thread at
\* "open" is inside _ensure_open, a thread at "request" inside its read or write
\* request; "ok" and "fail" are the statements after the 'with' block.
\* ---------------------------------------------------------------------------
\* variant: the block is entered without taking the lock
MsLockFree_always == TRUE

\* 'with self._lock:' can be entered
MsLockFree == ui.link.lock = "none"

\* lines 140, 183, 202, 252: the lock is taken; the UI thread comes with the
\* request of one of the three write methods
MsAcquire(t) ==
  /\ ui.link.pc[t] = "idle"
  /\ MsLockFree
  /\ \E req \in IF t = "poll" THEN {NoWrite}
                ELSE {write_target(3), write_mode(1),
                      write_cmd_packet(7, NA, NA, "Layer_C", 3)} :
       ui' = [ui EXCEPT !.link.pc[t] = "open", !.link.lock = t, !.link.req = req]
  /\ UNCHANGED <<HR, hist>>

\* _ensure_open inside the block; when it fails the method marks the link
\* disconnected and returns, which leaves the block
MsOpen(t) ==
  /\ ui.link.pc[t] = "open"
  /\ \E net \in BOOLEAN :
       ui' = IF ui.link.is_open \/ (serverUp /\ net)
               THEN [ui EXCEPT !.link.is_open = TRUE, !.link.pc[t] = "request"]
               ELSE [ui EXCEPT !.link = [set_connected(@, FALSE) EXCEPT
                                           !.failed = "open", !.pc[t] = "idle",
                                           !.lock = IF @ = t THEN "none" ELSE @]]
  /\ UNCHANGED <<HR, hist>>

\* read_input_registers, write_single_register or write_multiple_registers,
\* then the end of the block
MsRequest(t) ==
  /\ ui.link.pc[t] = "request"
  /\ \E net \in BOOLEAN :
       LET reach == serverUp /\ net
           wrote == reach /\ t = "ui"
       IN /\ ui' = [ui EXCEPT !.link.is_open = reach,
                              !.link.pc[t] = IF reach THEN "ok" ELSE "fail",
                              !.link.lock = IF @ = t THEN "none" ELSE @]
          /\ HR' = IF wrote THEN ApplyWrite(ui.link.req) ELSE HR
          /\ hist' = IF wrote THEN HistAfterWrite(ui.link.req) ELSE hist

\* after the block: poll_status marks the link, the write methods only log
MsAfter(t) ==
  /\ ui.link.pc[t] \in {"ok", "fail"}
  /\ ui' = [ui EXCEPT !.link =
              [(IF t = "poll" THEN set_connected(@, ui.link.pc[t] = "ok") ELSE @)
                 EXCEPT !.pc[t] = "idle",
                        !.failed = IF ui.link.pc[t] = "ok" THEN "none"
                                   ELSE IF t = "poll" THEN "read" ELSE "write"]]
  /\ UNCHANGED <<HR, hist>>

MsStep ==
  /\ \E t \in MsThreads : MsAcquire(t) \/ MsOpen(t) \/ MsRequest(t) \/ MsAfter(t)
  /\ last' = "other"
  /\ calls' = << >> /\ wire' = << >> /\ resps' = << >> /\ logs' = << >>
  /\ UNCHANGED <<fx, tk, cs, sf, serverUp, IR, connected, dm, motor_state,
                 last_tcp_target, elapsed>>

NextLock ==
  \/ StartServer
  \/ MsStep

SpecLock == Init /\ [][NextLock]_vars

\* ---------------------------------------------------------------------------
\* SpecRace: process_manual_command statement by statement. The tick runs on
\* the timer of the main thread and the Modbus TCP server answers the masters
\* on threads of its own, so a master's write may fall between the tick's read
\* of HR[10..15] (followed by the serial transaction) and its write of HR[10].
\* ---------------------------------------------------------------------------
\* lines 129-170 of a tick in MANUAL mode with a command in the slot: target
\* check, read of the packet, log, serial transaction
TickRead ==
  /\ tk.pc = "idle"
  /\ serverUp /\ IsManual(HR[HR_MODE_ADDR]) /\ HR[HR_CMD_ADDR] # 0
  /\ \E r1 \in (IF connected /\ TargetChanged THEN RespLens ELSE {0}),
        r2 \in (IF connected THEN RespLens ELSE {0}) :
       LET s == auto_cycle(Cur, r1, r2)
       IN /\ (r2 = 0 \/ Len(s.calls) > (IF TargetChanged THEN 1 ELSE 0))
          /\ tk' = [pc |-> "busy",
                    pkt |-> [i \in 1 .. HR_CMD_REG_COUNT |-> HR[HR_CMD_ADDR + i - 1]]]
          /\ dm' = s.dm
          /\ motor_state' = s.motor_state
          /\ last_tcp_target' = s.last_tcp_target
          /\ elapsed' = s.elapsed
          /\ calls' = s.calls
          /\ wire' = s.wire
          /\ resps' = s.resps
          /\ logs' = s.logs
          /\ last' = "other"
          /\ UNCHANGED <<fx, cs, ui, sf, serverUp, connected, HR, IR, hist>>

\* lines 172-173, "Clear CMD", then the mirror that ends the tick
TickClear ==
  /\ tk.pc = "busy"
  /\ tk' = TkInit
  /\ HR' = ClearCmd(HR)
  /\ IR' = update_input_registers([Cur EXCEPT !.HR = ClearCmd(HR)], IR)
  /\ hist' = [wmode |-> "none", ticks |-> 0, estop |-> hist.estop \/ tk.pkt[1] = 9]
  /\ last' = "tick"
  /\ calls' = << >> /\ wire' = << >> /\ resps' = << >> /\ logs' = << >>
  /\ UNCHANGED <<fx, cs, ui, sf, serverUp, connected, dm, motor_state,
                 last_tcp_target, elapsed>>

NextRace ==
  \/ StartServer
  \/ Connect
  \/ MasterWriteMode
  \/ WritePackets
  \/ TickRead
  \/ TickClear

SpecRace == Init /\ [][NextRace]_vars

\* ---------------------------------------------------------------------------
\* SpecCodec: the conversion functions, each applied once to an argument drawn
\* at the start: a signed 32-bit value (both ends of the range, both signs,
\* every carry between the two registers), a frame to build, or fewer than 5
\* bytes for verify_crc.
\* ---------------------------------------------------------------------------
CodecInputs ==
  LET blank == [regs |-> << >>, back |-> 0, wire |-> << >>, wback |-> 0,
                bytes |-> << >>, ok |-> FALSE, residue |-> 0]
      In(kind, arg) == [kind |-> kind, arg |-> arg, done |-> FALSE, out |-> blank]
      slaves == {SLAVE_ID_SHT20, SLAVE_ID_DRIVER, SLAVE_ID_COUNTER, 247}
      addrs == {0, 1, 4096, 65535}
      words == {0, 1, 255, 256, 65535}
      whole == frame_bytes(build_fc03(SLAVE_ID_SHT20, 0, 1))
      c2 == crc16_modbus(<<1, 3>>)
  IN {In("s32", k * 65536 + j) :
        k \in {0 - 32768, 0 - 32767, 0 - 1, 0, 1, 32766, 32767},
        j \in {0, 1, 32767, 32768, 65535}}
     \cup {In("frame", build_fc03(sl, a, w)) : sl \in slaves, a \in addrs, w \in words}
     \cup {In("frame", build_fc04(sl, a, w)) : sl \in slaves, a \in addrs, w \in words}
     \cup {In("frame", build_fc06(sl, a, w)) : sl \in slaves, a \in addrs, w \in words}
     \cup {In("frame", build_fc16(sl, a, r)) :
             sl \in slaves, a \in addrs,
             r \in {<<0>>, <<65535>>, <<0, 5000, 0, 8000>>, <<65535, 65535, 1, 0>>}}
     \cup {In("short", SubSeq(whole, 1, n)) : n \in 0 .. 4}
     \cup {In("short", <<1, 3, c2 % 256, c2 \div 256>>)}

InitCodec == Start /\ fx \in CodecInputs

\* the s32 value goes through s32_to_regs / regs_to_s32 and through pack_s32,
\* the MOVE_ABS frame of motor_move_absolute and unpack_s32_from_bytes; a frame
\* goes through its builder's bytes, verify_crc and crc16_modbus
Convert ==
  /\ ~fx.done
  /\ fx' = [fx EXCEPT !.done = TRUE, !.out =
       CASE fx.kind = "s32" ->
              LET r == s32_to_regs(fx.arg)
                  w == pack_s32(fx.arg)
                  frame == frame_bytes(build_fc16(SLAVE_ID_DRIVER, 32,
                                                  w \o pack_u32(AUTO_MOVE_SPEED)))
              IN [@ EXCEPT !.regs = r, !.back = regs_to_s32(r[1], r[2]),
                           !.wire = w, !.wback = unpack_s32_from_bytes(frame, 7)]
         [] fx.kind = "frame" ->
              LET b == frame_bytes(fx.arg)
              IN [@ EXCEPT !.bytes = b, !.ok = verify_crc(b),
                           !.residue = crc16_modbus(b)]
         [] OTHER ->
              [@ EXCEPT !.bytes = fx.arg, !.ok = verify_crc(fx.arg)]]
  /\ last' = "other"
  /\ UNCHANGED <<serverUp, HR, IR, connected, dm, motor_state, last_tcp_target,
                 elapsed, calls, wire, resps, logs, hist, sf, ui, cs, tk>>

SpecCodec == InitCodec /\ [][Convert]_vars

\* ---------------------------------------------------------------------------
\* SpecSerial: DeviceManager.send_frame / SerialHandler.send_frame, statement
\* by statement, called from several threads while the port is opened and closed.
\* sf.bus is the sequence of events on the serial port: <<"tx", t>> the frame of
\* thread t written, then <<"rx", t>>, <<"timeout", t>> or <<"error", t>> (the
\* read raised because the port was closed) when its read loop ends.
\* ---------------------------------------------------------------------------
MaxBus == 4

\* line 74: 'if not self.is_connected(): return b""'
SfEnter(t) ==
  /\ sf.pc[t] = "idle"
  /\ Len(sf.bus) < MaxBus
  /\ connected
  /\ sf' = [sf EXCEPT !.pc[t] = "acquire"]

\* variant: the block is entered without taking the lock
LockFree_always(t) == TRUE

\* line 77: 'with self.ser_lock:' can be entered
LockFree(t) == sf.lock = NoThread

SfAcquire(t) ==
  /\ sf.pc[t] = "acquire"
  /\ LockFree(t)
  /\ sf' = [sf EXCEPT !.pc[t] = "write", !.lock = t]

\* lines 79-82: reset_input_buffer, write, flush; they raise when the port was closed
SfWrite(t) ==
  /\ sf.pc[t] = "write"
  /\ sf' = IF connected
             THEN [sf EXCEPT !.pc[t] = "read", !.bus = Append(@, <<"tx", t>>)]
             ELSE [sf EXCEPT !.pc[t] = "release"]

\* lines 84-95: the read loop ends with a response, with the timeout, or raises
SfRead(t) ==
  /\ sf.pc[t] = "read"
  /\ \E ev \in IF connected THEN {"rx", "timeout"} ELSE {"error"} :
       sf' = [sf EXCEPT !.pc[t] = "release", !.bus = Append(@, <<ev, t>>)]

\* leaving the 'with' block
SfRelease(t) ==
  /\ sf.pc[t] = "release"
  /\ sf' = [sf EXCEPT !.pc[t] = "idle", !.lock = IF @ = t THEN NoThread ELSE @]

EngineVars == <<serverUp, HR, IR, dm, motor_state, last_tcp_target,
                elapsed, last, calls, wire, resps, logs, hist, ui, cs, tk, fx>>

SfStep ==
  /\ \E t \in Threads :
       SfEnter(t) \/ SfAcquire(t) \/ SfWrite(t) \/ SfRead(t) \/ SfRelease(t)
  /\ UNCHANGED EngineVars
  /\ UNCHANGED connected

NextSerial ==
  \/ SfStep
  \/ Connect
  \/ Disconnect

SpecSerial == Init /\ [][NextSerial]_vars

\* ---------------------------------------------------------------------------
\* Properties
\* ---------------------------------------------------------------------------
\* the frames of the claims, written out
F06(slave, addr, val) == [slave |-> slave, fc |-> 6, addr |-> addr, regs |-> <<val>>]
F16(slave, addr, regs) == [slave |-> slave, fc |-> 16, addr |-> addr, regs |-> regs]

IsMoveAbs(f) == f.slave = 2 /\ f.fc = 16 /\ f.addr = 32
IsJog(f) == f.slave = 2 /\ f.fc = 16 /\ f.addr = 48
AutoMoveFrame == F16(2, 32, <<0, 5000, 0, 8000>>)
CounterResetFrame == F06(3, 3, 1)
StopFrame == F06(2, 2, 1)

Has(seq, f) == \E i \in 1 .. Len(seq) : seq[i] = f
NoMoveAbs(seq) == \A i \in 1 .. Len(seq) : ~IsMoveAbs(seq[i])
DriverFrames(seq) == SelectSeq(seq, LAMBDA f : f.slave = 2)

\* the mode the tick reads: MANUAL only when the server is up and HR[8] = 1
ModeAuto == ~(serverUp /\ HR[8] = 1)
TickStep == last' = "tick"

\* C1: in AUTO mode a tick at which the engine's view of the driver has
\* alarm=true hands no MOVE_ABS to the serial port, and that view of the alarm
\* is cleared only by a poll whose driver status read returned alarm=false.
C1_NoMoveWhileAlarm ==
  [][ /\ (TickStep /\ ModeAuto /\ dm.driver_alarm) => NoMoveAbs(calls')
      /\ (dm.driver_alarm /\ ~dm'.driver_alarm) =>
            (last' = "poll" /\ Len(resps') = 4 /\ resps'[2] = 1) ]_vars

\* a tick in AUTO that found the alarm set although the counter was done
C1_Witness ==
  /\ last = "tick" /\ serverUp /\ HR[8] = 0 /\ connected
  /\ dm.driver_alarm /\ dm.counter_done /\ dm.counter_target > 0
  /\ motor_state = "Alarm" /\ calls = << >>

\* C3: the events on the serial port are a sequence of pairs: a frame written
\* by a thread, then the end of that same thread's read (response, timeout or
\* error); no event of another thread comes between the two.
C3_Serialized ==
  \A i \in 1 .. Len(sf.bus) :
    IF i % 2 = 1
      THEN sf.bus[i][1] = "tx"
      ELSE sf.bus[i][1] \in {"rx", "timeout", "error"} /\ sf.bus[i][2] = sf.bus[i - 1][2]

\* one thread is between its write and the end of its read while another
\* thread, after an earlier transaction of a third, waits for the lock
C3_Witness ==
  \E t1 \in Threads, t2 \in Threads :
    /\ t1 # t2
    /\ sf.lock = t1 /\ sf.pc[t1] = "read" /\ sf.pc[t2] = "acquire"
    /\ Len(sf.bus) = 3 /\ sf.bus[1][2] # t1

\* the preconditions of C4: AUTO mode, no alarm, a counter target, and no
\* change of HR[0] waiting to be forwarded
C4_Pre ==
  /\ TickStep /\ serverUp /\ HR[8] = 0 /\ ~dm.driver_alarm
  /\ dm.counter_target > 0 /\ HR[0] = last_tcp_target

\* C4 as stated: the tick after counter_done sends MOVE_ABS and the state
\* becomes MotorRunning; the tick that sees in_position sends counter_reset and
\* the state becomes WaitingReset; the tick that sees a reset counter sets Idle.
C4_AsStated ==
  [][ /\ (C4_Pre /\ motor_state \in {"Idle", "Waiting count"} /\ dm.counter_done) =>
            (calls' = <<AutoMoveFrame>> /\ motor_state' = "Motor running")
      /\ (C4_Pre /\ motor_state = "Motor running" /\ dm.driver_inpos) =>
            (calls' = <<CounterResetFrame>> /\ motor_state' = "Waiting reset")
      /\ (C4_Pre /\ motor_state = "Waiting reset"
                 /\ dm.counter_value = 0 /\ ~dm.counter_done) =>
            motor_state' = "Idle" ]_vars

\* C4 (amended): under the same preconditions the tick after counter_done hands
\* MOVE_ABS(5000, 8000) = FC16 slave 2 @ 0x0020 [0, 0x1388, 0, 0x1F40] to
\* send_frame, which writes it when the port is open, and the state becomes
\* MotorRunning exactly when a response comes back (else it is unchanged); the
\* tick in MotorRunning that sees in_position hands counter_reset = FC06 slave 3
\* @ 0x0003 = 1 to send_frame and the state becomes WaitingReset exactly when a
\* response of at least 8 bytes comes back; the tick in WaitingReset that sees
\* counter_value = 0 and counter_done = false sets the state to Idle.
C4_Cycle ==
  [][ /\ (C4_Pre /\ motor_state \in {"Idle", "Waiting count"} /\ dm.counter_done) =>
            /\ calls' = <<AutoMoveFrame>>
            /\ wire' = IF connected THEN calls' ELSE << >>
            /\ motor_state' = IF resps'[1] > 0 THEN "Motor running" ELSE motor_state
      /\ (C4_Pre /\ motor_state = "Motor running" /\ dm.driver_inpos) =>
            /\ calls' = <<CounterResetFrame>>
            /\ wire' = IF connected THEN calls' ELSE << >>
            /\ motor_state' = IF resps'[1] >= 8 THEN "Waiting reset" ELSE motor_state
      /\ (C4_Pre /\ motor_state = "Waiting reset"
                 /\ dm.counter_value = 0 /\ ~dm.counter_done) =>
            motor_state' = "Idle" ]_vars

\* the MOVE_ABS of the cycle was written to the port and acknowledged
C4_Witness ==
  /\ last = "tick" /\ motor_state = "Motor running" /\ connected
  /\ wire = <<AutoMoveFrame>> /\ resps[1] > 0 /\ dm.counter_done

\* C5: from WaitingReset a tick sends no MOVE_ABS, and the state it leaves the
\* engine in is WaitingReset, Idle, WaitingTarget, Alarm or Manual.
C5_OneMovePerCount ==
  [][ (TickStep /\ motor_state = "Waiting reset") =>
        /\ NoMoveAbs(calls')
        /\ motor_state' \in {"Waiting reset", "Idle", "Waiting target", "Alarm", "Manual"}
    ]_vars

\* the packet in HR[10..15]
Pkt(hr) == << hr[10], hr[11], hr[12], hr[13], hr[14], hr[15] >>

\* the frames the translation table gives for a packet
Translation(p) ==
  CASE p[1] = 1 -> << F06(2, 0, 1) >>
    [] p[1] = 2 -> << F06(2, 0, 0) >>
    [] p[1] = 3 -> << F16(2, 32, <<p[2], p[3], 0, p[4]>>) >>
    [] p[1] = 5 -> << F16(2, 48, <<0, p[4], 0, 1>>) >>
    [] p[1] = 6 -> << F16(2, 48, <<0, p[4], 0, 0>>) >>
    [] p[1] = 7 -> << F06(2, 2, 1) >>
    [] p[1] = 8 -> << F06(2, 1, 1) >>
    [] p[1] = 9 -> << F06(2, 2, 1) >>
    [] OTHER -> << >>

\* C2: the tick that follows an emergency_stop of the JSON client (which has put
\* the packet [9, 0, 0, 0, 3, 3] into HR[10..15]) writes the motor_stop frame,
\* FC06 to slave 2 @ 0x0002 = 1, to the open serial port, whatever HR[8] is.
C2_EmergencyAlwaysStops ==
  [][ (TickStep /\ last = "json" /\ connected /\ Pkt(HR) = <<9, 0, 0, 0, 3, 3>>) =>
        Has(wire', StopFrame) ]_vars

\* C6: in MANUAL mode a tick that finds HR[10] = c # 0 hands to send_frame the
\* one driver frame the translation table gives for c (none for a code outside
\* the table), after the counter_set_target frame if HR[0] has changed, writes
\* these frames when the port is open, and leaves HR[10] = 0 and HR[11..15] as
\* they were, whatever the responses.
C6_ManualTranslation ==
  [][ (TickStep /\ serverUp /\ HR[8] = 1 /\ HR[10] # 0) =>
        /\ DriverFrames(calls') = Translation(Pkt(HR))
        /\ calls' = (IF HR[0] # last_tcp_target THEN << F06(3, 1, HR[0]) >> ELSE << >>)
                      \o Translation(Pkt(HR))
        /\ wire' = IF connected THEN calls' ELSE << >>
        /\ HR' = [HR EXCEPT ![10] = 0] ]_vars

\* the packet [3, 0x0000, 0x4E20, 0x1F40, 2, 2] was translated and consumed
C6_Witness ==
  /\ last = "tick" /\ connected /\ HR[8] = 1
  /\ Pkt(HR) = <<0, 0, 20000, 8000, 2, 2>>
  /\ wire = << F16(2, 32, <<0, 20000, 0, 8000>>) >>

\* C7: a packet that was written to HR[10..15] while HR[8] was not MANUAL, and
\* not replaced since, never makes a tick hand a driver frame to the serial port.
C7_AutoPacketNeverRuns ==
  [][ (TickStep /\ hist.wmode = "auto") => DriverFrames(calls') = << >> ]_vars

\* C8: once two ticks have run after a non-zero write to HR[10], with no write
\* to HR[10..15] in between, HR[10] reads 0.
C8_SlotClearsInTwoTicks == hist.ticks >= 2 => HR[10] = 0

\* C8 (amended): a tick that runs with HR[8] = 1 leaves HR[10] = 0, so in
\* MANUAL mode a non-zero HR[10] reads 0 after the next tick; a tick that runs
\* with HR[8] # 1 leaves HR[10] as it is.
C8_SlotClearsInManual ==
  [][ /\ (TickStep /\ serverUp /\ HR[8] = 1) => HR'[10] = 0
      /\ (TickStep /\ HR[8] # 1) => HR'[10] = HR[10] ]_vars

\* a tick in MANUAL has consumed a packet that a master wrote
C8_Witness ==
  /\ last = "tick" /\ HR[8] = 1 /\ HR[10] = 0 /\ HR[14] # 0 /\ Len(logs) > 0

\* C9: after a tick has executed an EMERGENCY command, and until HR[8] is
\* written with another value, the engine state is Alarm, every poll mirrors it
\* as IR[8] = 4, and no tick hands a MOVE_ABS or jog frame to the serial port.
C9_EmergencyLatches ==
  [][ /\ hist'.estop => motor_state' = "Alarm"
      /\ (hist.estop /\ last' = "poll") => IR'[8] = 4
      /\ (TickStep /\ hist.estop) =>
           \A i \in 1 .. Len(calls') : ~IsMoveAbs(calls'[i]) /\ ~IsJog(calls'[i]) ]_vars

\* C10: a non-zero, non-EMERGENCY packet accepted in MANUAL mode leaves
\* HR[10..15], to a tick or to the next packet written, only through a tick
\* that logs it and hands its translation to the serial port, or through a step
\* that logs why it was dropped.
C10_NoSilentLoss ==
  [][ (/\ hist.wmode = "manual" /\ HR[8] = 1 /\ HR[10] \notin {0, 9}
       /\ Pkt(HR') # Pkt(HR) /\ (TickStep \/ HR'[10] # 0)) =>
        \/ /\ TickStep
           /\ DriverFrames(calls') = Translation(Pkt(HR))
           /\ \E i \in 1 .. Len(logs') : logs'[i][1] = "MANUAL CMD" /\ logs'[i][2] = HR[10]
        \/ \E i \in 1 .. Len(logs') : logs'[i][1] = "DROPPED" ]_vars

\* C11: while a non-EMERGENCY packet written in MANUAL mode is pending in
\* HR[10..15], a write of another non-EMERGENCY packet leaves a packet in the
\* slot whose priority field is not lower: a lower-priority packet never
\* displaces a pending higher-priority one.
C11_PriorityKept ==
  [][ (/\ hist.wmode = "manual" /\ HR[8] = 1 /\ HR[10] \notin {0, 9}
       /\ ~TickStep /\ HR'[10] \notin {0, 9}) => HR'[15] >= HR[15] ]_vars

\* C12: a tick that follows, with no poll in between, a tick that left the
\* engine in "Timeout motor" (so counter_done is as it was at that tick) hands
\* no MOVE_ABS to the serial port.
C12_NoMoveAfterTimeout ==
  [][ (TickStep /\ last = "tick" /\ ModeAuto /\ motor_state = "Timeout motor") =>
        NoMoveAbs(calls') ]_vars

\* the code of an engine state in IR[8]
StateCode(st) ==
  CASE st = "Idle" -> 0
    [] st = "Waiting count" -> 1
    [] st = "Motor running" -> 2
    [] st = "Waiting reset" -> 3
    [] st = "Alarm" -> 4
    [] st = "Timeout motor" -> 5
    [] st = "Disabled" -> 6
    [] st = "Waiting target" -> 7
    [] st = "Manual" -> 8

\* C13: while the Modbus TCP server runs, after every poll and every tick
\* IR[0..9] holds the two's-complement halves of the position, the speed, the
\* temperature and the humidity in tenths as 16-bit words, the status word
\* (bit 0 alarm, bit 1 in_position, bit 2 running), the counter value and
\* target, the code of the engine state and HR[8].
C13_MirrorCurrent ==
  (last \in {"poll", "tick"} /\ serverUp) =>
    /\ IR[1] = dm.current_position % 65536
    /\ IR[0] = ((dm.current_position - IR[1]) \div 65536) % 65536
    /\ IR[2] = dm.current_speed
    /\ IR[3] = dm.temperature % 65536
    /\ IR[4] = dm.humidity
    /\ IR[5] = (IF dm.driver_alarm THEN 1 ELSE 0) + (IF dm.driver_inpos THEN 2 ELSE 0)
                 + (IF dm.driver_running THEN 4 ELSE 0)
    /\ IR[6] = dm.counter_value
    /\ IR[7] = dm.counter_target
    /\ IR[8] = StateCode(motor_state)
    /\ IR[9] = HR[8]

\* C14: after a tick in MANUAL mode has executed a command (its driver frame
\* was answered), IR[10] is 1 for STEP_ON and 0 for STEP_OFF, and IR[11] is 1
\* for JOG_CW, 2 for JOG_CCW and 0 for STOP.
C14_StepJogMirrored ==
  [][ (/\ TickStep /\ serverUp /\ HR[8] = 1 /\ connected
       /\ DriverFrames(calls') # << >> /\ resps'[Len(resps')] > 0) =>
        /\ HR[10] = 1 => IR'[10] = 1
        /\ HR[10] = 2 => IR'[10] = 0
        /\ HR[10] = 5 => IR'[11] = 1
        /\ HR[10] = 6 => IR'[11] = 2
        /\ HR[10] = 7 => IR'[11] = 0 ]_vars

\* C15: the status object emitted for a 12-register read has every field
\* decoded from the registers, temperature = IR[3]/10 and humidity = IR[4]/10
\* (held in tenths) included.
C15_StatusDecoded ==
  (last = "status") =>
    /\ ui.status_msg.temperature = ui.regs[4]
    /\ ui.status_msg.humidity = ui.regs[5]

\* C15 (amended): the status object emitted for a 12-register read has
\* position = signed32(IR[0], IR[1]), speed = IR[2], alarm / inpos / running =
\* bits 0 / 1 / 2 of IR[5], counter_value = IR[6], counter_target = IR[7],
\* auto_state_code = IR[8], mode = IR[9], step_enabled = (IR[10] # 0),
\* jog_state = IR[11]; temperature and humidity are IR[3]/10 and IR[4]/10 while
\* the Supervisor's SHT20 toggle is on, and the values of the previous status
\* object (0.0 before the first) while it is off.
C15_StatusDecodedToggle ==
  [][ (last' = "status") =>
        LET r == ui'.regs
            m == ui'.status_msg
        IN /\ m.position = (IF r[1] >= 32768 THEN r[1] - 65536 ELSE r[1]) * 65536 + r[2]
           /\ m.speed = r[3]
           /\ m.temperature = IF ui.sht20_enabled THEN r[4] ELSE ui.temperature
           /\ m.humidity = IF ui.sht20_enabled THEN r[5] ELSE ui.humidity
           /\ m.driver_alarm = (r[6] % 2 = 1)
           /\ m.driver_inpos = ((r[6] \div 2) % 2 = 1)
           /\ m.driver_running = ((r[6] \div 4) % 2 = 1)
           /\ m.counter_value = r[7]
           /\ m.counter_target = r[8]
           /\ m.auto_state_code = r[9]
           /\ m.mode = r[10]
           /\ m.step_enabled = (r[11] # 0)
           /\ m.jog_state = r[12]
           /\ ui.status_msg # NoStatus =>
                (ui.temperature = ui.status_msg.temperature
                   /\ ui.humidity = ui.status_msg.humidity) ]_vars

\* the example read, decoded with the toggle on
C15_Witness ==
  /\ last = "status"
  /\ ui.sht20_enabled
  /\ ui.regs = <<0, 20000, 8000, 250, 500, 6, 3, 10, 2, 0, 1, 0>>
  /\ ui.status_msg =
       [position |-> 20000, speed |-> 8000, temperature |-> 250, humidity |-> 500,
        driver_alarm |-> FALSE, driver_inpos |-> TRUE, driver_running |-> TRUE,
        counter_value |-> 3, counter_target |-> 10, auto_state_code |-> 2,
        mode |-> 0, step_enabled |-> TRUE, jog_state |-> 0]

\* the validation rules for the data of a JSON command
InRange(x, lo, hi) == x # NA /\ x >= lo /\ x <= hi

ValidData(c) ==
  /\ c.priority = NA \/ InRange(c.priority, 1, 3)
  /\ CASE c.type = "set_target" -> InRange(c.data.target, 1, 65535)
       [] c.type = "set_mode" -> c.data.mode \in {0, 1}
       [] c.type = "motor_control" ->
            \/ c.data.step_command \in {"on", "off"}
            \/ c.data.alarm_reset
            \/ /\ InRange(c.data.position, 0 - 2000000000, 2000000000)
               /\ InRange(c.data.speed, 1, 200000)
       [] c.type = "jog_control" ->
            InRange(c.data.speed, 1, 200000) /\ c.data.direction \in {0 - 1, 1}
       [] c.type \in {"stop_motor", "release_control", "emergency_stop"} -> TRUE
       [] OTHER -> FALSE

\* the command code of a valid motion command
CmdCode(c) ==
  CASE c.type = "motor_control" ->
         (IF c.data.step_command = "on" THEN 1
          ELSE IF c.data.step_command = "off" THEN 2
          ELSE IF c.data.alarm_reset THEN 8 ELSE 3)
    [] c.type = "jog_control" -> (IF c.data.direction = 1 THEN 5 ELSE 6)
    [] c.type \in {"stop_motor", "release_control"} -> 7
    [] c.type = "emergency_stop" -> 9

\* C16: for a JSON command of an admitted type with valid data, received while
\* the Field Controller is reachable, the Supervisor makes exactly one write:
\* set_target changes HR[0] only, set_mode HR[8] only, and a motion command is
\* one 6-register write at HR[10] whose first four registers are cmd_code, the
\* two's-complement halves of position and speed & 0xFFFF, with HR[0] and HR[8]
\* left as they were.
C16_OneWritePerCommand ==
  [][ (last' = "json" /\ serverUp /\ ValidData(ui'.command)) =>
        LET c == ui'.command
            q == ui'.req
        IN CASE c.type = "set_target" ->
                  /\ q = [kind |-> "single", addr |-> 0, regs |-> << c.data.target >>]
                  /\ HR' = [HR EXCEPT ![0] = c.data.target]
             [] c.type = "set_mode" ->
                  /\ q = [kind |-> "single", addr |-> 8, regs |-> << c.data.mode >>]
                  /\ HR' = [HR EXCEPT ![8] = c.data.mode]
             [] OTHER ->
                  /\ q.kind = "multi" /\ q.addr = 10 /\ Len(q.regs) = 6
                  /\ \A a \in 10 .. 15 : HR'[a] = q.regs[a - 9]
                  /\ HR'[0] = HR[0] /\ HR'[8] = HR[8]
                  /\ HR'[10] = CmdCode(c)
                  /\ CmdCode(c) = 3 =>
                       /\ HR'[12] = c.data.position % 65536
                       /\ HR'[11] = ((c.data.position - HR'[12]) \div 65536) % 65536
                       /\ HR'[13] = c.data.speed % 65536
                  /\ CmdCode(c) \in {5, 6} => HR'[13] = c.data.speed % 65536 ]_vars

\* a MOVE_ABS to position -1 at speed 70000 was written as [3, 0xFFFF, 0xFFFF, 4464, ..]
C16_Witness ==
  /\ last = "json"
  /\ ui.command.type = "motor_control" /\ ui.command.data.position = 0 - 1
  /\ ui.req.kind = "multi"
  /\ HR[10] = 3 /\ HR[11] = 65535 /\ HR[12] = 65535 /\ HR[13] = 4464

\* the admitted types
Admitted ==
  {"motor_control", "jog_control", "stop_motor", "release_control",
   "emergency_stop", "set_target", "set_mode"}

\* C17: a JSON message is passed to _execute_command exactly when its type is
\* admitted; a message of another type makes no write request and leaves the
\* holding registers as they are; a heartbeat also leaves no log line.
C17_Admission ==
  [][ (last' = "json") =>
        /\ ui'.executed <=> ui'.command.type \in Admitted
        /\ ui'.command.type \notin Admitted => (ui'.req.kind = "none" /\ HR' = HR)
        /\ ui'.command.type = "heartbeat" => ui'.logs = << >> ]_vars

\* a message of an unknown type was rejected with a log line while the Field
\* Controller was reachable
C17_Witness ==
  /\ last = "json" /\ serverUp
  /\ ui.command.type = "reset"
  /\ ~ui.executed /\ ui.req.kind = "none"
  /\ Len(ui.logs) = 2

\* C18: a JSON command of an admitted type whose data (or priority) fails
\* validation is logged and dropped: it makes no write request and leaves the
\* holding registers as they are.
C18_InvalidDropped ==
  [][ (last' = "json" /\ ui'.command.type \in Admitted /\ ~ValidData(ui'.command)) =>
        /\ ui'.req.kind = "none"
        /\ HR' = HR
        /\ ui'.logs # << >> ]_vars

\* C19: a line of the JSON client that is not JSON, or is JSON but not an
\* object, gives a log line of the server and nothing else: no command is
\* queued, no register is written, no socket is closed, the slot is unchanged
\* and the handler goes on reading; an object of an unknown type is delivered,
\* logged as rejected and makes no write; a stop_motor that is delivered is
\* executed whatever lines came before it.
C19_BadLineLoggedOnly ==
  [][ /\ cs'.out.line \in {"garbage", "nonobject"} =>
             /\ cs'.out.log = IF cs'.out.line = "garbage"
                                THEN "JSON error from C"
                                ELSE "Rejected: command is not a JSON object"
             /\ cs'.queue = cs.queue
             /\ HR' = HR
             /\ cs'.open = cs.open /\ cs'.slot = cs.slot
             /\ \A c \in Clients : cs.h[c].pc = "recv" => cs'.h[c].pc = "recv"
      /\ cs'.out.delivered.type = "reset" =>
             /\ ui'.logs[Len(ui'.logs)] = <<"Rejected: unsupported command", "reset">>
             /\ ui'.req.kind = "none" /\ HR' = HR
             /\ cs'.open = cs.open /\ cs'.slot = cs.slot
      /\ cs'.out.delivered.type = "stop_motor" => ui'.executed
    ]_vars

\* a stop_motor that followed a line without an object on the same connection
\* has been written to the Field Controller, and every connection that carried
\* such a line is still open
C19_Witness ==
  /\ last = "json" /\ serverUp
  /\ cs.out.delivered.type = "stop_motor"
  /\ cs.out.delivered.afterBad
  /\ cs.bad # {} /\ cs.bad \subseteq cs.open
  /\ ui.executed /\ ui.req.kind # "none"
  /\ HR[10] = 7

\* C20: whenever no thread of the server is inside an accept, a send or the
\* end of a handler, and the client accepted last has not hung up, that client
\* is in the slot and its socket is the only open one.
Quiet ==
  /\ cs.acc.pc = "accept"
  /\ cs.snd.pc = "idle"
  /\ \A c \in Clients : cs.h[c].pc \in {"none", "recv", "done"}

C20_NewestAttached ==
  (Quiet /\ cs.newest # 0 /\ cs.newest \in cs.peer)
    => (cs.slot = cs.newest /\ cs.open = {cs.newest})

\* C21: when the link to the Field Controller is lost while a JSON client is
\* attached, the handler that notices it sends that client a status object
\* whose field connected is false.
C21_LossReported ==
  [][ (cs.slot # 0 /\ cs.slot \in cs.open /\ cs.acc.pc = "accept"
       /\ ui.link.connected /\ ~ui'.link.connected)
        => /\ cs'.out.sentTo = cs.slot
           /\ ui'.link.sent # NoStatus
           /\ "connected" \in DOMAIN ui'.link.sent
           /\ ui'.link.sent.connected = FALSE ]_vars

\* C22: after a handler whose open, read or write failed, the link is marked
\* disconnected; a poll that reaches the Field Controller marks it connected
\* again, shows it and forwards a status object.
C22_FailureMarksDisconnected ==
  /\ ui.link.failed # "none" => ~ui.link.connected
  /\ last = "status" => /\ ui.link.connected
                        /\ ui.link.chip_a = "A: Connected"
                        /\ ui.link.sent # NoStatus

\* C23: in a poll, a sensor read without a valid answer clears sht20_ok and
\* leaves temperature and humidity as they were, a valid answer sets sht20_ok
\* and stores both words, and in either case the counter is read after it and
\* its valid answer is stored.
C23_SensorFailureLocal ==
  [][ (last' = "poll") =>
        /\ Len(calls') = 4
        /\ calls'[3] = [slave |-> 1, fc |-> 4, addr |-> 1, regs |-> <<2>>]
        /\ calls'[4] = [slave |-> 3, fc |-> 3, addr |-> 0, regs |-> <<4>>]
        /\ resps'[3] # 2 => /\ ~dm'.sht20_ok
                            /\ dm'.temperature = dm.temperature
                            /\ dm'.humidity = dm.humidity
        /\ resps'[3] = 2 => dm'.sht20_ok
        /\ resps'[4] = 3 => dm'.counter_value = 3 /\ dm'.counter_done
    ]_vars

\* a poll in which the sensor did not answer and the counter did, with the
\* temperature of an earlier poll still held
C23_Witness ==
  /\ last = "poll" /\ connected
  /\ resps[3] = 0 /\ resps[4] = 3
  /\ ~dm.sht20_ok /\ dm.temperature = 260 /\ dm.humidity = 510
  /\ dm.counter_value = 3

\* C24: when the driver (or the counter) answered one poll and gives no valid
\* answer to the next, the input registers published after the second poll
\* differ from those published after the first, so that a reader can tell the
\* device's values are no longer refreshed.
C24_OfflinePublished ==
  [][ (/\ last = "poll" /\ last' = "poll" /\ serverUp
       /\ \/ (resps[1] = 2 /\ resps[2] = 1 /\ resps'[1] = 0 /\ resps'[2] = 0)
          \/ (resps[4] = 3 /\ resps'[4] = 0))
        => IR' # IR ]_vars

\* C25: after a poll in which the sensor answered with the word reg0, IR[3]
\* holds reg0, and the temperature the Supervisor decodes from the input
\* registers is reg0 read as a signed 16-bit number (of tenths).
Signed16(w) == IF w >= 32768 THEN w - 65536 ELSE w

C25_SignedTemperature ==
  (last = "poll" /\ serverUp /\ resps[3] = 2) =>
     /\ IR[3] = dm.temperature
     /\ poll_status([i \in 1 .. 12 |-> IR[i - 1]]).temperature = Signed16(dm.temperature)

\* C26: for every signed 32-bit x, s32_to_regs gives two words in 0..65535
\* from which regs_to_s32 gives x back, and pack_s32 gives two such words from
\* whose bytes on the wire unpack_s32_from_bytes gives x back.
C26_RoundTrip ==
  (fx.kind = "s32" /\ fx.done) =>
     /\ Len(fx.out.regs) = 2 /\ Len(fx.out.wire) = 2
     /\ \A i \in 1 .. 2 : fx.out.regs[i] \in 0 .. 65535 /\ fx.out.wire[i] \in 0 .. 65535
     /\ fx.out.back = fx.arg
     /\ fx.out.wback = fx.arg

\* the least value of the range has gone through both pairs
C26_Witness ==
  /\ fx.kind = "s32" /\ fx.done
  /\ fx.arg = (0 - 2147483647) - 1
  /\ fx.out.regs = <<32768, 0>> /\ fx.out.back = fx.arg
  /\ fx.out.wire = <<32768, 0>> /\ fx.out.wback = fx.arg

\* C27: a built frame ends with the CRC of the bytes before it, low byte
\* first (01 03 00 00 00 01 gets 84 0A), verify_crc accepts it and the CRC over
\* all its bytes is 0; verify_crc rejects fewer than 5 bytes, even with a
\* right CRC.
C27_FramesCarryCrc ==
  /\ (fx.kind = "frame" /\ fx.done) =>
        LET b == fx.out.bytes
            n == Len(b)
            c == crc16_modbus(SubSeq(b, 1, n - 2))
        IN /\ n = IF fx.arg.fc = 16 THEN 9 + 2 * Len(fx.arg.regs) ELSE 8
           /\ b[n - 1] = c % 256 /\ b[n] = c \div 256
           /\ fx.out.ok
           /\ fx.out.residue = 0
           /\ (fx.arg = [slave |-> 1, fc |-> 3, addr |-> 0, regs |-> <<1>>])
                => b = <<1, 3, 0, 0, 0, 1, 132, 10>>
  /\ (fx.kind = "short" /\ fx.done) => ~fx.out.ok

\* the frame 01 03 00 00 00 01 84 0A has been built and accepted
C27_Witness ==
  /\ fx.kind = "frame" /\ fx.done
  /\ fx.out.bytes = <<1, 3, 0, 0, 0, 1, 132, 10>>
  /\ fx.out.ok /\ fx.out.residue = 0

\* C28: a step of the Field Controller (a poll or a tick) leaves every Holding
\* Register as it was, except that a tick in MANUAL mode may set a non-zero
\* HR[10] to 0; and once the server is up the Input Registers change only in
\* such a step, to the mirror of the snapshot it ends with.
C28_RegistersOwnedByMasters ==
  [][ /\ (last' \in {"poll", "tick"}) =>
           /\ \A a \in HRAddrs \ {HR_CMD_ADDR} : HR'[a] = HR[a]
           /\ \/ HR'[HR_CMD_ADDR] = HR[HR_CMD_ADDR]
              \/ /\ HR'[HR_CMD_ADDR] = 0
                 /\ last' = "tick"
                 /\ IsManual(HR[HR_MODE_ADDR])
           /\ serverUp => IR' = update_input_registers(Cur', IR)
      /\ (serverUp /\ last' \notin {"poll", "tick"}) => IR' = IR
    ]_vars

\* a tick has consumed a jog packet with a new target pending: the target, the
\* mode and the packet's other words are as the master wrote them
C28_Witness ==
  /\ last = "tick" /\ serverUp /\ connected
  /\ HR[HR_CMD_ADDR] = 0 /\ HR[14] # 0
  /\ HR[HR_TARGET_ADDR] # 0 /\ last_tcp_target = HR[HR_TARGET_ADDR]
  /\ IsManual(HR[HR_MODE_ADDR])
  /\ Len(calls) >= 2

\* C29: a packet written for a command of the JSON channel carries source code
\* 3 in its fifth word (HR[14]) whatever the message says of its source, and
\* for release_control a source code that is neither 2 nor 3 with priority 1
\* in its sixth word (HR[15]).
C29_OriginTagged ==
  [][ (last' = "json" /\ ui'.req.kind = "multi" /\ ui'.req.addr = A_HR_CMD_ADDR) =>
        IF ui'.command.type = "release_control"
          THEN ui'.req.regs[5] \notin {2, 3} /\ ui'.req.regs[6] = 1
          ELSE ui'.req.regs[5] = 3
    ]_vars

\* C30: when a tick sets a non-zero HR[10] to 0, the packet in HR[10..15] is
\* the one that tick read and translated.
C30_ClearedPacketWasRead ==
  [][ (last' = "tick" /\ tk.pc = "busy" /\ HR[HR_CMD_ADDR] # 0 /\ HR'[HR_CMD_ADDR] = 0) =>
        Pkt(HR) = tk.pkt
    ]_vars

\* C31: the tick that follows the tick which sent the MOVE_ABS, with no poll
\* between the two, has no in_position value read after the MOVE_ABS, so it
\* does not take the engine from "Motor running" to "Waiting reset".
C31_InPositionReadAfterMove ==
  [][ (/\ last = "tick" /\ motor_state = "Motor running"
       /\ \E i \in DOMAIN calls : calls[i].fc = 16 /\ calls[i].slave = SLAVE_ID_DRIVER
       /\ last' = "tick") =>
        motor_state' # "Waiting reset"
    ]_vars

\* C32: the socket _close_client takes out of the slot, when it is called at
\* the end of a handler or after a failed send, is the handler's own client or
\* the one the send failed on (or none); and when the accept thread has put
\* the new client into the slot, that client's socket is open.
C32_ClosesOnlyItsOwn ==
  [][ /\ \A c \in Clients :
           (cs.h[c].pc = "take" /\ cs'.h[c].pc = "close") => cs'.h[c].cap \in {0, c}
      /\ (cs.snd.pc = "take" /\ cs'.snd.pc = "close") => cs'.snd.cap \in {0, cs.snd.sock}
      /\ (cs.acc.pc = "set" /\ cs'.acc.pc = "accept") =>
           (cs'.slot = cs.newest /\ cs.newest \in cs'.open)
    ]_vars

\* C33: a tick ends with the engine in "Manual" exactly when the mode register
\* HR[8] it read holds 1.
C33_ManualIffMode ==
  [][ (last' = "tick") =>
        ((motor_state' = "Manual") <=> (serverUp /\ HR[HR_MODE_ADDR] = 1))
    ]_vars

\* C34: a tick in AUTO mode, without alarm and with a counter target, that
\* finds the engine in "Motor running" more than MOTOR_TIMEOUT_S after the last
\* command ends in "Timeout motor" or in "Waiting reset".
C34_RunningTimesOut ==
  [][ (/\ last' = "tick"
       /\ motor_state = "Motor running"
       /\ elapsed > MOTOR_TIMEOUT_S
       /\ ~IsManual(get_mode(Cur))
       /\ ~dm.driver_alarm
       /\ dm.counter_target > 0 /\ dm'.counter_target > 0) =>
        motor_state' \in {"Timeout motor", "Waiting reset"}
    ]_vars

\* C35: a tick takes the engine into "Motor running" only when its MOVE_ABS
\* frame was answered by a whole acknowledgement (8 bytes), not by the 5 bytes
\* of an exception response.
C35_MoveAcknowledged ==
  [][ (last' = "tick" /\ motor_state # "Motor running" /\ motor_state' = "Motor running") =>
        \E i \in DOMAIN calls' :
           /\ calls'[i].fc = 16 /\ calls'[i].slave = SLAVE_ID_DRIVER
           /\ resps'[i] = 8
    ]_vars

\* the counter_set_target frames among the frames of a step
SetTargetFrames(cl) ==
  {i \in DOMAIN cl : cl[i].slave = SLAVE_ID_COUNTER /\ cl[i].fc = 6 /\ cl[i].addr = 1}

\* C36: a tick, in whatever mode and engine state, whose HR[0] differs from
\* last_tcp_target hands counter_set_target(HR[0]) to the serial port as its
\* first and only such frame and sets last_tcp_target to HR[0]; a tick whose
\* HR[0] equals last_tcp_target hands over no counter_set_target frame.
C36_TargetForwardedOnChange ==
  [][ (last' = "tick" /\ serverUp) =>
        IF HR[HR_TARGET_ADDR] # last_tcp_target
          THEN /\ SetTargetFrames(calls') = {1}
               /\ calls'[1] = build_fc06(SLAVE_ID_COUNTER, 1, HR[HR_TARGET_ADDR])
               /\ connected => (wire' # << >> /\ wire'[1] = calls'[1])
               /\ last_tcp_target' = HR[HR_TARGET_ADDR]
          ELSE /\ SetTargetFrames(calls') = {}
               /\ last_tcp_target' = last_tcp_target
    ]_vars

\* a tick in MANUAL mode has forwarded a new target to the counter
C36_Witness ==
  /\ last = "tick" /\ serverUp /\ connected
  /\ motor_state = "Manual"
  /\ HR[HR_TARGET_ADDR] # 0 /\ last_tcp_target = HR[HR_TARGET_ADDR]
  /\ calls # << >> /\ calls[1] = build_fc06(SLAVE_ID_COUNTER, 1, HR[HR_TARGET_ADDR])
  /\ wire # << >> /\ wire[1] = calls[1]

\* C37: a tick that finds HR[0] different from last_tcp_target sets
\* last_tcp_target to HR[0] whether or not the counter acknowledges, and sets
\* the engine's counter_target to HR[0] exactly when it does; a later tick with
\* HR[0] unchanged sends no counter_set_target frame and leaves counter_target
\* alone, so a forward that failed is not tried again.
C37_FailedForwardNotRetried ==
  [][ (last' = "tick" /\ serverUp) =>
        IF HR[HR_TARGET_ADDR] # last_tcp_target
          THEN /\ last_tcp_target' = HR[HR_TARGET_ADDR]
               /\ Cardinality(SetTargetFrames(calls')) = 1
               /\ (resps'[1] >= 8) => dm'.counter_target = HR[HR_TARGET_ADDR]
               /\ (resps'[1] < 8) => dm'.counter_target = dm.counter_target
          ELSE /\ SetTargetFrames(calls') = {}
               /\ dm'.counter_target = dm.counter_target
    ]_vars

\* a forward got a short answer: the shadow holds the new target, the engine's
\* counter_target does not
C37_Witness ==
  /\ last = "tick" /\ serverUp /\ connected
  /\ calls # << >> /\ calls[1] = build_fc06(SLAVE_ID_COUNTER, 1, HR[HR_TARGET_ADDR])
  /\ resps[1] = 5
  /\ last_tcp_target = HR[HR_TARGET_ADDR]
  /\ dm.counter_target # HR[HR_TARGET_ADDR]

\* C38: at most one thread is inside _ensure_open or inside a read or write
\* request of the Supervisor's Modbus client, and that thread holds the lock.
C38_OneRequestAtATime ==
  LET inside == {t \in MsThreads : ui.link.pc[t] \in {"open", "request"}}
  IN /\ Cardinality(inside) <= 1
     /\ \A t \in inside : ui.link.lock = t

\* the UI thread is inside its write request while the poll thread waits for
\* the lock with the link already up
C38_Witness ==
  /\ ui.link.pc["ui"] = "request" /\ ui.link.lock = "ui"
  /\ ui.link.pc["poll"] = "idle"
  /\ ui.link.connected /\ ui.link.is_open
  /\ ui.link.req.kind = "multi"

====
